---------------------------- MODULE Spec2Model ----------------------------
(***************************************************************************)
(* A model of the signal-processing toolkit of pynmd (src/data/signal.py). *)
(* Every function of the toolkit is modelled as a small state machine      *)
(* whose steps are the statements of the function; the local variables of  *)
(* one call live in a record (a call frame) whose fields carry the names   *)
(* the source gives them.  Arrays are functions over 0..n-1, as in numpy.  *)
(* Floating point values are modelled exactly, as normalised fractions     *)
(* <<numerator, denominator>>, with the not-a-number value kept apart.     *)
(***************************************************************************)
EXTENDS Integers, Sequences, FiniteSets, TLC

VARIABLES
    ba,     \* the frame of the band_averaging call
    heap,   \* the array buffers callers hand to psdraw, by buffer id
    orig,   \* what each buffer held before any call started
    pr,     \* the frames of the psdraw calls, by call id
    cc,     \* the frame of the cross_corr call
    bx,     \* the frame of the boxcar call
    sl,     \* the frame of the smooth1d_loess call
    sd,     \* the frame of the slow_dft call
    sc,     \* the frame of the squared_coherence call
    pw,     \* the frame of the psd_pw_pc call
    ru,     \* the frame of the runup call
    af      \* the frame of the aliased_frequency call

vars == <<ba, heap, orig, pr, cc, bx, sl, sd, sc, pw, ru, af>>

\* a call that is not part of the run
Idle == [pc |-> "idle"]

-----------------------------------------------------------------------------
(* Bounds of the model.                                                    *)

\* longest spectrum handed to band_averaging
MaxN == 5
\* largest stencil handed to band_averaging
MaxStencil == 4
\* largest sample value of an input array
MaxVal == 1

-----------------------------------------------------------------------------
(* Exact arithmetic on the values numpy holds as floats.                   *)

\* 0/0, the not-a-number value; n/0 with n # 0 is the signed infinity
NaN == <<0, 0>>

Abs(a) == IF a < 0 THEN -a ELSE a

RECURSIVE GCD(_, _)
GCD(a, b) == IF b = 0 THEN a ELSE GCD(b, a % b)

\* the fraction n/d (d # 0) in lowest terms with a positive denominator
Rat(n, d) ==
    LET g == GCD(Abs(n), Abs(d))
        s == IF d < 0 THEN -1 ELSE 1
    IN  <<(s * n) \div g, (s * d) \div g>>

\* an integer-valued float
ToRat(v) == <<v, 1>>

RAdd(p, q) == Rat(p[1] * q[2] + q[1] * p[2], p[2] * q[2])
RSub(p, q) == Rat(p[1] * q[2] - q[1] * p[2], p[2] * q[2])
RMul(p, q) == Rat(p[1] * q[1], p[2] * q[2])

\* number of elements of an array (shape[0])
Size(a) == Cardinality(DOMAIN a)

\* the empty array
Empty == [i \in {} |-> 0]

\* the array <<v0, v1, ...>> indexed from 0
Arr(seq) == [i \in 0..(Len(seq) - 1) |-> seq[i + 1]]

\* a slice bound as Python reads it: negative bounds count from the end, and
\* the result is clipped to 0..n
SliceBound(i, n) ==
    IF i < 0 THEN (IF i + n < 0 THEN 0 ELSE i + n) ELSE (IF i > n THEN n ELSE i)

\* a[lo:hi] as a fresh array
Slice(a, lo, hi) ==
    LET n  == Size(a)
        l  == SliceBound(lo, n)
        h  == SliceBound(hi, n)
    IN  IF h <= l THEN Empty ELSE [i \in 0..(h - l - 1) |-> a[l + i]]

RECURSIVE SumTo(_, _)
\* a[0] + ... + a[k-1]
SumTo(a, k) == IF k = 0 THEN 0 ELSE SumTo(a, k - 1) + a[k - 1]

\* np.mean of an array of integer-valued floats; not-a-number when empty
Mean(a) == IF Size(a) = 0 THEN NaN ELSE Rat(SumTo(a, Size(a)), Size(a))

\* ceil(a/b) for a >= 0, b > 0
Ceil(a, b) == (a + b - 1) \div b

-----------------------------------------------------------------------------
(* band_averaging(psd, freq, stencil)                                      *)

\* a local name that no statement has assigned yet
Unbound == <<>>
Bound(v) == <<v>>

\* np.zeros((n,))
Zeros(n) == [i \in 0..(n - 1) |-> ToRat(0)]

\* the arrays a caller may hand in: every array of small samples, and a ramp
Arrays(n) == [0..(n - 1) -> 0..MaxVal] \cup {[i \in 0..(n - 1) |-> i + 1]}

\* a frequency axis starting at zero with a constant spacing
FreqAxes(n) == {[i \in 0..(n - 1) |-> i * df] : df \in 1..2}

\* Nout = np.int(1 + np.ceil((psd.shape[0]-1)/stencil))
NoutOf(n, stencil) == 1 + Ceil(n - 1, stencil)

\* IndLow as it would be had the first bin not been stepped over
IndLowFromZero(aa, stencil) == (aa - 1) * stencil

\* ind_low = (aa - 1.0)*stencil + 1.0
IndLow(aa, stencil) == (aa - 1) * stencil + 1

\* ind_high = ind_low + stencil
IndHigh(ind_low, stencil) == ind_low + stencil

\* the frame of a call that has not started
BAFrame(psd, freq, stencil) ==
    [pc |-> "size", psd |-> psd, freq |-> freq, stencil |-> stencil,
     Nout |-> 0, psd_ba |-> Empty, freq_ba |-> Empty, aa |-> 0,
     ind_low |-> Unbound, ind_high |-> Unbound, result |-> <<>>]

\* what a band_averaging call leaves alone
BAOthers == <<heap, orig, pr, cc, bx, sl, sd, sc, pw, ru, af>>

BAInit ==
    /\ heap = <<>>
    /\ orig = <<>>
    /\ pr = <<>>
    /\ sd = Idle
    /\ sc = Idle
    /\ pw = Idle
    /\ ru = Idle
    /\ af = Idle
    /\ cc = Idle
    /\ bx = Idle
    /\ sl = Idle
    /\ ba \in UNION {{BAFrame(psd, freq, stencil) :
                      psd \in Arrays(n), freq \in FreqAxes(n), stencil \in 1..MaxStencil}
                  : n \in 1..MaxN}

\* lines 452-455: the size of the output arrays
BASize ==
    /\ UNCHANGED BAOthers
    /\ ba.pc = "size"
    /\ ba' = [ba EXCEPT !.Nout = NoutOf(Size(ba.psd), ba.stencil), !.pc = "alloc"]

\* lines 458-462: preallocate the outputs
BAAlloc ==
    /\ UNCHANGED BAOthers
    /\ ba.pc = "alloc"
    /\ ba' = [ba EXCEPT !.psd_ba = Zeros(ba.Nout), !.freq_ba = Zeros(ba.Nout),
                        !.pc = "first"]

\* lines 465-466: the first frequency and PSD estimate
BAFirst ==
    /\ UNCHANGED BAOthers
    /\ ba.pc = "first"
    /\ ba' = [ba EXCEPT !.psd_ba[0] = ToRat(ba.psd[0]),
                        !.freq_ba[0] = ToRat(ba.freq[0]),
                        !.aa = 1, !.pc = "loop"]

\* lines 469-477: one pass of the loop over the central bands
BALoop ==
    /\ UNCHANGED BAOthers
    /\ ba.pc = "loop"
    /\ ba.aa < ba.Nout - 1
    /\ LET ind_low  == IndLow(ba.aa, ba.stencil)
           ind_high == IndHigh(ind_low, ba.stencil)
       IN  ba' = [ba EXCEPT !.ind_low = Bound(ind_low),
                            !.ind_high = Bound(ind_high),
                            !.psd_ba[ba.aa] = Mean(Slice(ba.psd, ind_low, ind_high)),
                            !.freq_ba[ba.aa] = Mean(Slice(ba.freq, ind_low, ind_high)),
                            !.aa = ba.aa + 1]

\* lines 480-481: the last frequency bin; ind_high is read as the loop left it
BALast ==
    /\ UNCHANGED BAOthers
    /\ ba.pc = "loop"
    /\ ba.aa >= ba.Nout - 1
    /\ IF ba.ind_high = Unbound
       THEN ba' = [ba EXCEPT !.pc = "raised"]
       ELSE LET ind_high == ba.ind_high[1]
                n        == Size(ba.psd)
            IN  ba' = [ba EXCEPT
                         !.psd_ba[ba.Nout - 1] = Mean(Slice(ba.psd, ind_high, n)),
                         !.freq_ba[ba.Nout - 1] = Mean(Slice(ba.freq, ind_high, n)),
                         !.pc = "return"]

\* line 484: return freq_ba, psd_ba
BAReturn ==
    /\ UNCHANGED BAOthers
    /\ ba.pc = "return"
    /\ ba' = [ba EXCEPT !.result = <<ba.freq_ba, ba.psd_ba>>, !.pc = "done"]

BANext == BASize \/ BAAlloc \/ BAFirst \/ BALoop \/ BALast \/ BAReturn

SpecBA == BAInit /\ [][BANext]_vars

(* Claims about band_averaging.                                            *)

BAEnded == ba.pc \in {"done", "raised"}

RECURSIVE SumRange(_, _, _)
\* a[lo] + ... + a[hi]
SumRange(a, lo, hi) == IF hi < lo THEN 0 ELSE SumRange(a, lo, hi - 1) + a[hi]

\* the mean of a[lo..hi], lo <= hi
MeanOver(a, lo, hi) == Rat(SumRange(a, lo, hi), hi - lo + 1)

\* the input indices the claims give to output bin j of a spectrum of n bins
BinFirst(j, stencil) == (j - 1) * stencil + 1
BinLast(j, stencil, n, nout) == IF j = nout - 1 THEN n - 1 ELSE j * stencil

\* C1: for every N >= 1 and every stencil >= 1 the call returns normally and
\* both returned arrays have length 1 + ceil((N-1)/stencil).
C1_BinCount ==
    BAEnded =>
        /\ ba.pc = "done"
        /\ Size(ba.result[1]) = 1 + Ceil(Size(ba.psd) - 1, ba.stencil)
        /\ Size(ba.result[2]) = 1 + Ceil(Size(ba.psd) - 1, ba.stencil)

\* C2: for every N >= 1 and every stencil >= 1 the call returns with
\* freq_ba[0] = freq[0] and psd_ba[0] = psd[0].
C2_FirstBinKept ==
    BAEnded =>
        /\ ba.pc = "done"
        /\ ba.result[1][0] = ToRat(ba.freq[0])
        /\ ba.result[2][0] = ToRat(ba.psd[0])

\* C3: for every N >= 2 and every stencil >= 1, stencil >= N-1 included, the
\* last output bin is the mean of the input bins (Nout-2)*stencil+1 .. N-1,
\* a group of at least 1 and at most stencil bins.
C3_LastBin ==
    (BAEnded /\ Size(ba.psd) >= 2) =>
        /\ ba.pc = "done"
        /\ LET n    == Size(ba.psd)
               nout == 1 + Ceil(n - 1, ba.stencil)
               lo   == (nout - 2) * ba.stencil + 1
           IN  /\ n - lo \in 1..ba.stencil
               /\ ba.result[1][nout - 1] = MeanOver(ba.freq, lo, n - 1)
               /\ ba.result[2][nout - 1] = MeanOver(ba.psd, lo, n - 1)

\* C4: when there are middle bins (Nout >= 3), output bin j, 1 <= j <= Nout-2,
\* is the mean of the stencil input bins (j-1)*stencil+1 .. j*stencil, for psd
\* and for freq; with the last bin, every input index 1..N-1 lies in exactly
\* one output bin; and psd=[1,2,3,4,5], freq=[0,1,2,3,4], stencil=2 gives
\* freq_ba=[0,1.5,3.5], psd_ba=[1,2.5,4.5].
C4_MiddleBins ==
    (ba.pc = "done" /\ ba.Nout >= 3) =>
        LET n    == Size(ba.psd)
            nout == Size(ba.result[2])
            st   == ba.stencil
        IN  /\ \A j \in 1..(nout - 2) :
                  /\ BinLast(j, st, n, nout) - BinFirst(j, st) + 1 = st
                  /\ ba.result[2][j] = MeanOver(ba.psd, BinFirst(j, st), BinLast(j, st, n, nout))
                  /\ ba.result[1][j] = MeanOver(ba.freq, BinFirst(j, st), BinLast(j, st, n, nout))
            /\ ba.result[2][nout - 1] =
                  MeanOver(ba.psd, BinFirst(nout - 1, st), BinLast(nout - 1, st, n, nout))
            /\ \A i \in 1..(n - 1) :
                  Cardinality({j \in 1..(nout - 1) :
                                 i \in BinFirst(j, st)..BinLast(j, st, n, nout)}) = 1
            /\ (ba.psd = [i \in 0..4 |-> i + 1] /\ ba.freq = [i \in 0..4 |-> i] /\ st = 2) =>
                  /\ ba.result[1] = [i \in 0..2 |-> <<<<0, 1>>, <<3, 2>>, <<7, 2>>>>[i + 1]]
                  /\ ba.result[2] = [i \in 0..2 |-> <<<<1, 1>>, <<5, 2>>, <<9, 2>>>>[i + 1]]

\* the scenario of C4 has run to its end
C4_Witness ==
    /\ ba.pc = "done"
    /\ ba.Nout = 3
    /\ ba.psd = [i \in 0..4 |-> i + 1]
    /\ ba.freq = [i \in 0..4 |-> i]
    /\ ba.stencil = 2

-----------------------------------------------------------------------------
(* Exact complex arithmetic for the discrete Fourier transform.  For the   *)
(* record lengths that divide 12 every twiddle factor has its real and     *)
(* imaginary part in {0, +-1/2, +-1, +-sqrt(3)/2}, so a real number is     *)
(* held as <<p, q, d>>, meaning (p + q*sqrt(3))/d, in lowest terms.        *)

Surd(p, q, d) ==
    LET g == GCD(GCD(Abs(p), Abs(q)), Abs(d))
        s == IF d < 0 THEN -1 ELSE 1
    IN  <<(s * p) \div g, (s * q) \div g, (s * d) \div g>>

FromRat(r) == <<r[1], 0, r[2]>>

SAdd(x, y) == Surd(x[1] * y[3] + y[1] * x[3], x[2] * y[3] + y[2] * x[3], x[3] * y[3])
SNeg(x) == <<-x[1], -x[2], x[3]>>
SMul(x, y) == Surd(x[1] * y[1] + 3 * x[2] * y[2], x[1] * y[2] + x[2] * y[1], x[3] * y[3])

\* a complex number is <<real part, imaginary part>>
CZero == <<FromRat(ToRat(0)), FromRat(ToRat(0))>>
CAdd(u, v) == <<SAdd(u[1], v[1]), SAdd(u[2], v[2])>>
CMul(u, v) == <<SAdd(SMul(u[1], v[1]), SNeg(SMul(u[2], v[2]))),
                SAdd(SMul(u[1], v[2]), SMul(u[2], v[1]))>>
\* a complex number times a real one
CScale(u, x) == <<SMul(u[1], x), SMul(u[2], x)>>
\* np.conjugate
Conjugate(u) == <<u[1], SNeg(u[2])>>

\* cos(t * 30 degrees), t in 0..11
Cos12(t) ==
    CASE t \in {0}      -> <<1, 0, 1>>
      [] t \in {1, 11}  -> <<0, 1, 2>>
      [] t \in {2, 10}  -> <<1, 0, 2>>
      [] t \in {3, 9}   -> <<0, 0, 1>>
      [] t \in {4, 8}   -> <<-1, 0, 2>>
      [] t \in {5, 7}   -> <<0, -1, 2>>
      [] t \in {6}      -> <<-1, 0, 1>>

\* exp(-2*pi*i*j/n) for n a divisor of 12
Twiddle(n, j) ==
    LET t == ((12 \div n) * j) % 12
    IN  <<Cos12(t), SNeg(Cos12((t + 9) % 12))>>

RECURSIVE DftSum(_, _, _, _)
\* sum over b < m of ts[b] * exp(-2*pi*i*k*b/n), n the length of ts
DftSum(ts, n, k, m) ==
    IF m = 0 THEN CZero
    ELSE CAdd(DftSum(ts, n, k, m - 1),
              CScale(Twiddle(n, (k * (m - 1)) % n), FromRat(ts[m - 1])))

\* np.fft.fft(ts)
Fft(ts) == LET n == Size(ts) IN [k \in DOMAIN ts |-> DftSum(ts, n, k, n)]

\* np.fft.fftfreq(n, d)
FftFreq(n, d) ==
    [k \in 0..(n - 1) |-> IF k < ((n - 1) \div 2) + 1 THEN Rat(k, n * d)
                                                      ELSE Rat(k - n, n * d)]

\* np.concatenate of two arrays
Concatenate(a, b) ==
    [i \in 0..(Size(a) + Size(b) - 1) |-> IF i < Size(a) THEN a[i] ELSE b[i - Size(a)]]

\* np.array([v])
One(v) == [i \in {0} |-> v]

RECURSIVE RSumTo(_, _)
\* a[0] + ... + a[k-1] for an array of fractions
RSumTo(a, k) == IF k = 0 THEN ToRat(0) ELSE RAdd(RSumTo(a, k - 1), a[k - 1])

\* ts.mean() for a non-empty array of fractions
RMean(a) == RMul(RSumTo(a, Size(a)), Rat(1, Size(a)))

-----------------------------------------------------------------------------
(* psdraw(ts, dt, demean)                                                  *)

\* record lengths for which the transform is exact in this arithmetic
Lens == {1, 2, 3, 4, 6}
\* largest sample of a series handed to psdraw (the smallest is -1)
MaxTs == 1
\* largest sampling interval
MaxDt == 2

\* the series a caller may hold, as float arrays
Series(n) == [0..(n - 1) -> {ToRat(v) : v \in -1..MaxTs}]

PsdFrame(ts, dt, demean) ==
    [pc |-> "demean", ts |-> ts, dt |-> dt, demean |-> demean, mean |-> Unbound,
     N |-> 0, fj |-> Empty, yf |-> Empty, psd |-> Empty, sf |-> Empty,
     freq_amp |-> Empty, result |-> <<>>]

\* what a psdraw call leaves alone
PsdOthers == <<ba, orig, cc, bx, sl, sd, sc, pw, ru, af>>

\* one call on one buffer
PsdInit ==
    /\ sd = Idle
    /\ sc = Idle
    /\ pw = Idle
    /\ ru = Idle
    /\ af = Idle
    /\ ba = Idle
    /\ cc = Idle
    /\ bx = Idle
    /\ sl = Idle
    /\ \E n \in Lens : \E y \in Series(n) : heap = <<y>>
    /\ orig = heap
    /\ \E dt \in 1..MaxDt, demean \in BOOLEAN : pr = <<PsdFrame(1, dt, demean)>>

\* the real parts of an array of complex numbers
RealPart(a) == [k \in DOMAIN a |-> a[k][1]]

\* lines 157-158: the series with its mean removed when demean is set
Demeaned(y, demean) ==
    IF demean THEN [i \in DOMAIN y |-> RSub(y[i], RMean(y))] ELSE y

\* lines 157-158: the right-hand side of ts -= ts.mean()
PsdMean(c) ==
    /\ pr[c].pc = "demean"
    /\ UNCHANGED PsdOthers
    /\ UNCHANGED heap
    /\ IF pr[c].demean
       THEN pr' = [pr EXCEPT ![c].mean = Bound(RMean(heap[pr[c].ts])), ![c].pc = "subtract"]
       ELSE pr' = [pr EXCEPT ![c].pc = "length"]

\* line 158: the in-place subtraction, written through to the array ts names
PsdSubtract(c) ==
    /\ pr[c].pc = "subtract"
    /\ UNCHANGED PsdOthers
    /\ heap' = [heap EXCEPT ![pr[c].ts] = [i \in DOMAIN @ |-> RSub(@[i], pr[c].mean[1])]]
    /\ pr' = [pr EXCEPT ![c].pc = "length"]

\* lines 161-182: the record length and the Fourier frequencies
PsdLength(c) ==
    /\ pr[c].pc = "length"
    /\ UNCHANGED PsdOthers
    /\ UNCHANGED heap
    /\ LET N == Size(heap[pr[c].ts])
       IN  pr' = [pr EXCEPT ![c].N = N, ![c].fj = FftFreq(N, pr[c].dt), ![c].pc = "fft"]

\* an array of complex numbers divided by N
Divided(ff, N) == [k \in DOMAIN ff |-> CScale(ff[k], <<1, 0, N>>)]

\* line 185: yf = np.fft.fft(ts)/N
PsdFft(c) ==
    /\ pr[c].pc = "fft"
    /\ UNCHANGED PsdOthers
    /\ UNCHANGED heap
    /\ pr' = [pr EXCEPT ![c].yf = Divided(Fft(heap[pr[c].ts]), pr[c].N),
                        ![c].pc = "power"]

\* line 186: psd = N*dt*yf*np.conjugate(yf)
Power(N, dt, yf) ==
    [k \in DOMAIN yf |-> CScale(CMul(yf[k], Conjugate(yf[k])), <<N * dt, 0, 1>>)]

PsdPower(c) ==
    /\ pr[c].pc = "power"
    /\ UNCHANGED PsdOthers
    /\ UNCHANGED heap
    /\ pr' = [pr EXCEPT ![c].psd = Power(pr[c].N, pr[c].dt, pr[c].yf), ![c].pc = "fold"]

\* the stop of the doubled slice had both parities used N/2
FoldStopHalf(N) == N \div 2

\* the stop of the doubled slice: N/2 (lines 190-193), (N+1)/2 (lines 195-196)
FoldStop(N) == IF N % 2 = 0 THEN N \div 2 ELSE (N + 1) \div 2

\* 2.0*psd[1:stop]
Doubled(psd, stop) ==
    LET part == Slice(psd, 1, stop)
    IN  [i \in DOMAIN part |-> CScale(part[i], <<2, 0, 1>>)]

\* the fold with the last bin of an even record doubled like the others
OneSidedAllDoubled(psd, N) ==
    Concatenate(One(psd[0]), Doubled(psd, IF N % 2 = 0 THEN N \div 2 + 1 ELSE (N + 1) \div 2))

\* lines 189-195: sf
OneSided(psd, N) ==
    IF N % 2 = 0
    THEN Concatenate(Concatenate(One(psd[0]), Doubled(psd, FoldStop(N))), One(psd[N \div 2]))
    ELSE Concatenate(One(psd[0]), Doubled(psd, FoldStop(N)))

\* lines 192-196: freq_amp
OneSidedFreq(fj, N) ==
    LET picked == IF N % 2 = 0
                  THEN Concatenate(Concatenate(One(fj[0]), Slice(fj, 1, FoldStop(N))),
                                   One(fj[N \div 2]))
                  ELSE Concatenate(One(fj[0]), Slice(fj, 1, FoldStop(N)))
    IN  [i \in DOMAIN picked |-> <<Abs(picked[i][1]), picked[i][2]>>]

\* lines 189-196: one sided psd from dft
PsdFold(c) ==
    /\ pr[c].pc = "fold"
    /\ UNCHANGED PsdOthers
    /\ UNCHANGED heap
    /\ pr' = [pr EXCEPT ![c].sf = OneSided(pr[c].psd, pr[c].N),
                        ![c].freq_amp = OneSidedFreq(pr[c].fj, pr[c].N),
                        ![c].pc = "return"]

\* line 200: return freq_amp, sf.real
PsdReturn(c) ==
    /\ pr[c].pc = "return"
    /\ UNCHANGED PsdOthers
    /\ UNCHANGED heap
    /\ pr' = [pr EXCEPT ![c].result = <<pr[c].freq_amp, RealPart(pr[c].sf)>>,
                        ![c].pc = "done"]

PsdNext ==
    \/ \E c \in DOMAIN pr : PsdMean(c)
    \/ \E c \in DOMAIN pr : PsdSubtract(c)
    \/ \E c \in DOMAIN pr : PsdLength(c)
    \/ \E c \in DOMAIN pr : PsdFft(c)
    \/ \E c \in DOMAIN pr : PsdPower(c)
    \/ \E c \in DOMAIN pr : PsdFold(c)
    \/ \E c \in DOMAIN pr : PsdReturn(c)

SpecPsd == PsdInit /\ [][PsdNext]_vars

\* record lengths of the series two concurrent callers hold
ParLens == {1, 2}

\* two calls whose steps interleave, on two buffers or on the same one
ParInit ==
    /\ sd = Idle
    /\ sc = Idle
    /\ pw = Idle
    /\ ru = Idle
    /\ af = Idle
    /\ ba = Idle
    /\ cc = Idle
    /\ bx = Idle
    /\ sl = Idle
    /\ \E n1 \in ParLens, n2 \in ParLens :
           \E y1 \in Series(n1), y2 \in Series(n2) : heap = <<y1, y2>>
    /\ orig = heap
    /\ \E ts2 \in {1, 2}, demean1 \in BOOLEAN, demean2 \in BOOLEAN :
           pr = <<PsdFrame(1, 1, demean1), PsdFrame(ts2, 1, demean2)>>

SpecPar == ParInit /\ [][PsdNext]_vars

\* lines 156-200: what one call returns when nothing else runs
Psdraw(y, dt, demean) ==
    LET N == Size(y)
    IN  <<OneSidedFreq(FftFreq(N, dt), N),
          RealPart(OneSided(Power(N, dt, Divided(Fft(Demeaned(y, demean)), N)), N))>>

(* Claims about psdraw.                                                    *)

RECURSIVE SSumTo(_, _)
\* a[0] + ... + a[k-1] for an array of reals
SSumTo(a, k) == IF k = 0 THEN <<0, 0, 1>> ELSE SAdd(SSumTo(a, k - 1), a[k - 1])

\* the mean of the squared deviations of a series from its mean
Variance(y) == RMean([i \in DOMAIN y |-> RMul(RSub(y[i], RMean(y)), RSub(y[i], RMean(y)))])

\* C5: for even N the one-sided spectrum has N/2+1 bins, bins 1..N/2-1 twice
\* the two-sided value, bins 0 and N/2 not doubled; for odd N it has (N+1)/2
\* bins, bins 1..(N-1)/2 doubled and bin 0 not; every two-sided bin 0..N-1 is
\* accounted for exactly once, directly or through its mirrored bin; and the
\* frequency array is as long as the spectrum.
C5_Fold ==
    \A c \in DOMAIN pr :
        pr[c].pc = "done" =>
            LET N    == Size(heap[pr[c].ts])
                two  == RealPart(pr[c].psd)
                sf   == pr[c].result[2]
                last == IF N % 2 = 0 THEN N \div 2 ELSE (N - 1) \div 2
                dbl  == IF N % 2 = 0 THEN 1..(N \div 2 - 1) ELSE 1..((N - 1) \div 2)
                \* the two-sided bins that output bin k stands for
                of(k) == IF k \in dbl THEN {k, N - k} ELSE {k}
            IN  /\ DOMAIN sf = 0..last
                /\ Size(two) = N
                /\ \A k \in 0..last :
                       sf[k] = IF k \in dbl THEN SMul(<<2, 0, 1>>, two[k]) ELSE two[k]
                /\ \A i \in 0..(N - 1) : Cardinality({k \in 0..last : i \in of(k)}) = 1
                /\ \A k \in dbl : two[N - k] = two[k]
                /\ SSumTo(sf, last + 1) = SSumTo(two, N)
                /\ Size(pr[c].result[1]) = Size(sf)

\* an odd record with power in its doubled bin has been folded
C5_Witness ==
    /\ pr[1].pc = "done"
    /\ pr[1].N = 3
    /\ pr[1].result[2][1] # <<0, 0, 1>>

\* C6: with demean=True the sum of the returned one-sided PSD bins times
\* df = 1/(N*dt) equals the variance of y; y=[1,-1,1,-1], dt=1 puts all the
\* power (4) in the Nyquist bin at 0.5 and none elsewhere.
C6_Parseval ==
    \A c \in DOMAIN pr :
        (pr[c].pc = "done" /\ pr[c].demean) =>
            LET y   == orig[pr[c].ts]
                N   == Size(y)
                sf  == pr[c].result[2]
                df  == <<1, 0, N * pr[c].dt>>
            IN  /\ SMul(SSumTo(sf, Size(sf)), df) = FromRat(Variance(y))
                /\ (y = Arr(<<ToRat(1), ToRat(-1), ToRat(1), ToRat(-1)>>) /\ pr[c].dt = 1) =>
                       /\ sf = Arr(<<<<0, 0, 1>>, <<0, 0, 1>>, <<4, 0, 1>>>>)
                       /\ pr[c].result[1][2] = Rat(1, 2)

\* the alternating series of C6 has been transformed with demean=True
C6_Witness ==
    /\ pr[1].pc = "done"
    /\ pr[1].demean
    /\ pr[1].dt = 1
    /\ orig[1] = Arr(<<ToRat(1), ToRat(-1), ToRat(1), ToRat(-1)>>)

\* C7: after psdraw returns, for demean=False and demean=True alike, the
\* caller's ts buffer holds the values it held before the call.
C7_InputKept ==
    \A c \in DOMAIN pr :
        pr[c].pc = "done" => heap[pr[c].ts] = orig[pr[c].ts]

\* C8: for any interleaving of the steps of two psdraw calls, on distinct
\* series buffers or on the same one, each call returns the result it would
\* return when run alone.
C8_Interleaving ==
    \A c \in DOMAIN pr :
        pr[c].pc = "done" =>
            pr[c].result = Psdraw(orig[pr[c].ts], pr[c].dt, pr[c].demean)

-----------------------------------------------------------------------------
(* Float arithmetic with the IEEE special values: <<0,0>> is not-a-number, *)
(* <<1,0>> and <<-1,0>> are the infinities, every other value a fraction.  *)

Inf(sign) == <<sign, 0>>
Sign(n) == IF n > 0 THEN 1 ELSE IF n < 0 THEN -1 ELSE 0

\* np.isnan, np.isfinite
IsNan(v) == v = NaN
IsFinite(v) == v[2] # 0

XAdd(p, q) ==
    IF IsNan(p) \/ IsNan(q) THEN NaN
    ELSE IF ~IsFinite(p) /\ ~IsFinite(q) THEN (IF p = q THEN p ELSE NaN)
    ELSE IF ~IsFinite(p) THEN p
    ELSE IF ~IsFinite(q) THEN q
    ELSE RAdd(p, q)

XNeg(p) == <<-p[1], p[2]>>
XSub(p, q) == XAdd(p, XNeg(q))

XMul(p, q) ==
    IF IsNan(p) \/ IsNan(q) THEN NaN
    ELSE IF IsFinite(p) /\ IsFinite(q) THEN RMul(p, q)
    ELSE IF p[1] = 0 \/ q[1] = 0 THEN NaN
    ELSE Inf(Sign(p[1]) * Sign(q[1]))

\* p/q where a zero divisor is +0.0
XDiv(p, q) ==
    IF IsNan(p) \/ IsNan(q) THEN NaN
    ELSE IF ~IsFinite(q) THEN (IF IsFinite(p) THEN ToRat(0) ELSE NaN)
    ELSE IF q[1] = 0 THEN (IF p[1] = 0 THEN NaN ELSE Inf(Sign(p[1])))
    ELSE IF ~IsFinite(p) THEN Inf(Sign(p[1]) * Sign(q[1]))
    ELSE Rat(p[1] * q[2], p[2] * q[1])

RECURSIVE NanSumTo(_, _)
\* np.nansum of a[0..k-1]: not-a-number entries count as zero
NanSumTo(a, k) ==
    IF k = 0 THEN ToRat(0)
    ELSE XAdd(NanSumTo(a, k - 1), IF IsNan(a[k - 1]) THEN ToRat(0) ELSE a[k - 1])

NanSum(a) == NanSumTo(a, Size(a))

\* np.sum(np.isfinite(a))
CountFinite(a) == Cardinality({i \in DOMAIN a : IsFinite(a[i])})

\* the variance had np.nanstd used the sample estimate (ddof=1)
VarAboutSample(a, mean, cnt) ==
    XDiv(NanSum([i \in DOMAIN a |->
                   IF IsNan(a[i]) THEN NaN
                   ELSE XMul(XSub(a[i], mean), XSub(a[i], mean))]),
         XSub(cnt, ToRat(1)))

\* the mean of the squared deviations of the cnt entries of a that are not
\* not-a-number from their mean
VarAbout(a, mean, cnt) ==
    XDiv(NanSum([i \in DOMAIN a |->
                   IF IsNan(a[i]) THEN NaN
                   ELSE XMul(XSub(a[i], mean), XSub(a[i], mean))]),
         cnt)

\* the number of entries that are not not-a-number, as a float
CountKept(a) == ToRat(Cardinality({i \in DOMAIN a : ~IsNan(a[i])}))

\* np.nanstd(a), held as its square (the variance of the entries that are not
\* not-a-number); not-a-number when there is no such entry
NanStd(a) ==
    IF \A i \in DOMAIN a : IsNan(a[i]) THEN NaN
    ELSE VarAbout(a, XDiv(NanSum(a), CountKept(a)), CountKept(a))

\* v/np.nanstd(a) for a value v held as sign(v)*v^2 and a deviation held as
\* its square
OverStd(vsq, var) == XDiv(vsq, var)

\* a value v as sign(v)*v^2
SignedSquare(v) == XMul(v, <<Abs(v[1]), v[2]>>)

-----------------------------------------------------------------------------
(* cross_corr(x, y, lags, norma)                                           *)

\* longest series handed to cross_corr
MaxLen == 2
\* largest number of lags asked for
MaxLag == 1

\* the samples of a series: missing, or a small value
Samples == {NaN, ToRat(0), ToRat(1)}

\* the normalisation values a caller passes: 0, 1 and an unsupported one
Normas == {0, 1, 2}

\* every series of n samples
SeriesOf(n) == [0..(n - 1) -> Samples]

\* some series of n samples: a ramp, and two with a missing sample at one end
Gauges(n) ==
    {[i \in 0..(n - 1) |-> ToRat(i + 1)],
     [i \in 0..(n - 1) |-> IF i = n - 1 THEN NaN ELSE ToRat(i % 2)],
     [i \in 0..(n - 1) |-> IF i = 0 THEN NaN ELSE ToRat(i % 2)]}

\* the series [1., 2., 3., 4.]
Ramp4 == Arr(<<ToRat(1), ToRat(2), ToRat(3), ToRat(4)>>)

\* the pairs of equal-length series a caller hands in: every pair up to
\* MaxLen samples, every series one sample longer against a gauge, and the
\* series [1., 2., 3., 4.] against itself
Pairs ==
    UNION {SeriesOf(n) \X SeriesOf(n) : n \in 1..MaxLen}
        \cup ((SeriesOf(MaxLen + 1) \cup Gauges(MaxLen + 1)) \X Gauges(MaxLen + 1))
        \cup {<<Ramp4, Ramp4>>}

\* the subsets had line 107 been left out
MaskedFromX(xtmp, ytmp) ==
    <<xtmp, [i \in DOMAIN ytmp |-> IF IsNan(xtmp[i]) THEN NaN ELSE ytmp[i]]>>

\* the correlation as it would be had line 108 been left out
MaskedOneWay(xtmp, ytmp) ==
    <<[i \in DOMAIN xtmp |-> IF IsNan(ytmp[i]) THEN NaN ELSE xtmp[i]], ytmp>>

\* lines 107-108: make sure NaNs are consistent in both subsets
Masked(xtmp, ytmp) ==
    LET x1 == [i \in DOMAIN xtmp |-> IF IsNan(ytmp[i]) THEN NaN ELSE xtmp[i]]
        y1 == [i \in DOMAIN ytmp |-> IF IsNan(x1[i]) THEN NaN ELSE ytmp[i]]
    IN  <<x1, y1>>

\* lines 107-108, on the pair <<xtmp, ytmp>>
MaskedPair(sub) == Masked(sub[1], sub[2])

\* the subsets had the negative lags been cut like the positive ones
SubsetOneSided(x, y, aa) ==
    IF aa # 0 THEN <<Slice(x, 0, -Abs(aa)), Slice(y, Abs(aa), Size(y))>> ELSE <<x, y>>

\* lines 93-103: the data subset <<xtmp, ytmp>> of lag aa
Subset(x, y, aa) ==
    IF aa > 0 THEN <<Slice(x, 0, -aa), Slice(y, aa, Size(y))>>
    ELSE IF aa < 0 THEN <<Slice(x, -aa, Size(x)), Slice(y, 0, aa)>>
    ELSE <<x, y>>

\* line 111: nn = np.sum(np.isfinite(xtmp) - 1.0 + norma)
Nn(xtmp, norma) == ToRat(CountFinite(xtmp) - Size(xtmp) + norma * Size(xtmp))

\* line 116: the cross-covariance about the two means
CovAbout(xtmp, ytmp, xtmpmean, ytmpmean, nn) ==
    XDiv(NanSum([i \in DOMAIN xtmp |->
                   XMul(XSub(xtmp[i], xtmpmean), XSub(ytmp[i], ytmpmean))]),
         nn)

\* lines 112-116: the mean values and the cross-covariance
CrossCov(xtmp, ytmp, nn) ==
    CovAbout(xtmp, ytmp, XDiv(NanSum(xtmp), nn), XDiv(NanSum(ytmp), nn), nn)

\* line 117: crosscov / np.nanstd(xtmp) / np.nanstd(ytmp), held as sign*square
Rho(crosscov, xstd, ystd) == OverStd(OverStd(SignedSquare(crosscov), xstd), ystd)

\* lines 120-124: the row of stats for lag aa
StatsRow(aa, crosscov, xstd, ystd, nobs) ==
    Arr(<<ToRat(aa), crosscov, xstd, ystd, ToRat(nobs)>>)

\* lines 117-124: what is stored for lag aa, given the statistics
StoredWith(aa, crosscov, xstd, ystd, nobs) ==
    [rho |-> One(Rho(crosscov, xstd, ystd)),
     stats |-> StatsRow(aa, crosscov, xstd, ystd, nobs)]

\* lines 117-124: what is stored for lag aa, given the cross-covariance
Stored(aa, crosscov, xtmp, ytmp) ==
    StoredWith(aa, crosscov, NanStd(xtmp), NanStd(ytmp), CountFinite(xtmp))

\* lines 111-124: what is stored for lag aa, given the masked subsets
StoredOf(aa, m, norma) == Stored(aa, CrossCov(m[1], m[2], Nn(m[1], norma)), m[1], m[2])

\* lines 93-124: what one pass of the loop stores for lag aa
LagResult(x, y, aa, norma) == StoredOf(aa, MaskedPair(Subset(x, y, aa)), norma)

\* np.zeros((rows, cols))
Zeros2(rows, cols) == [i \in 0..(rows - 1) |-> Zeros(cols)]

\* passes counts the values the loop has drawn from range(-lags, lags+1)
CCFrame(x, y, lags, norma) ==
    [pc |-> "check", x |-> x, y |-> y, lags |-> lags, norma |-> norma,
     warned |-> FALSE, rho |-> Empty, stats |-> Empty, passes |-> 0, aa |-> Unbound,
     xtmp |-> Empty, ytmp |-> Empty, nn |-> Unbound, result |-> <<>>]

\* what a cross_corr call leaves alone
CCOthers == <<ba, heap, orig, pr, bx, sl, sd, sc, pw, ru, af>>

CCInit ==
    /\ sd = Idle
    /\ sc = Idle
    /\ pw = Idle
    /\ ru = Idle
    /\ af = Idle
    /\ ba = Idle
    /\ bx = Idle
    /\ sl = Idle
    /\ heap = <<>>
    /\ orig = <<>>
    /\ pr = <<>>
    /\ \E p \in Pairs, lags \in 0..MaxLag, norma \in Normas :
           cc = CCFrame(p[1], p[2], lags, norma)

\* the data check had it warned without setting norma to 1.0
CCCheckWarnOnly ==
    /\ cc.pc = "check"
    /\ UNCHANGED CCOthers
    /\ IF cc.norma # 0 /\ cc.norma # 1
       THEN cc' = [cc EXCEPT !.warned = TRUE, !.pc = "alloc"]
       ELSE cc' = [cc EXCEPT !.pc = "alloc"]

\* lines 77-83: quick data check
CCCheck ==
    /\ cc.pc = "check"
    /\ UNCHANGED CCOthers
    /\ IF cc.norma # 0 /\ cc.norma # 1
       THEN cc' = [cc EXCEPT !.warned = TRUE, !.norma = 1, !.pc = "alloc"]
       ELSE cc' = [cc EXCEPT !.pc = "alloc"]

\* lines 86-87: preallocate variables
CCAlloc ==
    /\ cc.pc = "alloc"
    /\ UNCHANGED CCOthers
    /\ cc' = [cc EXCEPT !.rho = Zeros2(2 * cc.lags + 1, 1),
                        !.stats = Zeros2(2 * cc.lags + 1, 5),
                        !.pc = "loop"]

\* range(-lags, lags+1, 1)[i]
LagAt(i, lags) == i - lags

\* the row of rho and stats that the pass for lag aa writes: aa + lags
RowOf(aa, lags) == aa + lags

\* the frame after the pass for lag aa has masked its subsets to m and stored
\* its results
AfterPass(f, aa, m, stored) ==
    [f EXCEPT !.aa = Bound(aa), !.passes = f.passes + 1,
              !.xtmp = m[1], !.ytmp = m[2], !.nn = Bound(Nn(m[1], f.norma)),
              !.rho[RowOf(aa, f.lags)] = stored.rho,
              !.stats[RowOf(aa, f.lags)] = stored.stats]

\* lines 90-124: one pass of the loop over lags
CCLag ==
    /\ cc.pc = "loop"
    /\ cc.passes < 2 * cc.lags + 1
    /\ UNCHANGED CCOthers
    /\ cc' = AfterPass(cc, LagAt(cc.passes, cc.lags),
                       MaskedPair(Subset(cc.x, cc.y, LagAt(cc.passes, cc.lags))),
                       LagResult(cc.x, cc.y, LagAt(cc.passes, cc.lags), cc.norma))

\* line 90: the range is exhausted
CCLoopEnd ==
    /\ cc.pc = "loop"
    /\ cc.passes = 2 * cc.lags + 1
    /\ UNCHANGED CCOthers
    /\ cc' = [cc EXCEPT !.pc = "return"]

\* line 126
CCReturn ==
    /\ cc.pc = "return"
    /\ UNCHANGED CCOthers
    /\ cc' = [cc EXCEPT !.result = <<cc.rho, cc.stats>>, !.pc = "done"]

CCNext == CCCheck \/ CCAlloc \/ CCLag \/ CCLoopEnd \/ CCReturn

SpecCC == CCInit /\ [][CCNext]_vars

(* Claims about cross_corr.                                                *)

\* C9: the cross-covariance, the correlation coefficient and the observation
\* count that cross_corr(x,y,L) reports at lag k equal those that
\* cross_corr(y,x,L) reports at lag -k, for every k in [-L, L], with or
\* without missing values and for either normalisation.
C9_Symmetry ==
    cc.pc = "done" =>
        \A k \in (-cc.lags)..cc.lags :
            LET mine   == cc.result[2][k + cc.lags]
                swapped == LagResult(cc.y, cc.x, -k, cc.norma)
            IN  /\ mine[1] = swapped.stats[1]
                /\ cc.result[1][k + cc.lags] = swapped.rho
                /\ mine[4] = swapped.stats[4]

\* a call on two different series has returned a covariance that differs
\* between a lag and its opposite
C9_Witness ==
    /\ cc.pc = "done"
    /\ cc.lags >= 1
    /\ cc.x # cc.y
    /\ \E i \in DOMAIN cc.x : IsNan(cc.x[i])
    /\ \E k \in 1..cc.lags :
           /\ IsFinite(cc.result[2][k + cc.lags][1])
           /\ cc.result[2][k + cc.lags][1] # cc.result[2][cc.lags - k][1]

\* the positions i of x that lag k pairs with y[i+k]
Window(n, k) == {i \in 0..(n - 1) : 0 <= i + k /\ i + k < n}
First(S) == CHOOSE i \in S : \A j \in S : i <= j

\* the samples lag k pairs, in the order of their positions
PairedOver(x, y, k, W) ==
    <<[j \in 0..(Cardinality(W) - 1) |-> x[First(W) + j]],
      [j \in 0..(Cardinality(W) - 1) |-> y[First(W) + j + k]]>>
Paired(x, y, k) == PairedOver(x, y, k, Window(Size(x), k))

\* C10: for each lag k in [-L, L], x[i] is paired with y[i+k] for exactly
\* those i with 0 <= i < N and 0 <= i+k < N (N-|k| positions), the results
\* for lag k are stored in row k+L of rho and stats with stats[k+L,0] = k,
\* and there are 2L+1 rows in ascending lag order.
C10_Pairing ==
    /\ (cc.pc = "loop" /\ cc.passes > 0) =>
        /\ cc.aa[1] = cc.passes - 1 - cc.lags
        /\ Cardinality(Window(Size(cc.x), cc.aa[1])) =
              (IF Abs(cc.aa[1]) <= Size(cc.x) THEN Size(cc.x) - Abs(cc.aa[1]) ELSE 0)
        /\ <<cc.xtmp, cc.ytmp>> = MaskedPair(Paired(cc.x, cc.y, cc.aa[1]))
    /\ cc.pc = "done" =>
        /\ DOMAIN cc.result[1] = 0..(2 * cc.lags)
        /\ DOMAIN cc.result[2] = 0..(2 * cc.lags)
        /\ \A k \in (-cc.lags)..cc.lags :
               /\ cc.result[2][k + cc.lags][0] = ToRat(k)
               /\ [rho |-> cc.result[1][k + cc.lags], stats |-> cc.result[2][k + cc.lags]]
                     = StoredOf(k, MaskedPair(Paired(cc.x, cc.y, k)), cc.norma)

\* a pass for a negative lag has paired two or more positions of two
\* different series, one of them with a missing sample
C10_Witness ==
    /\ cc.pc = "loop"
    /\ cc.passes > 0
    /\ cc.aa[1] < 0
    /\ Size(cc.xtmp) >= 2
    /\ cc.x # cc.y
    /\ \E i \in DOMAIN cc.xtmp : IsNan(cc.xtmp[i])
    /\ \E i \in DOMAIN cc.xtmp : ~IsNan(cc.xtmp[i])

\* the positions of the window of lag k where neither x[i] nor y[i+k] is missing
JointlyKept(x, y, k) ==
    {i \in Window(Size(x), k) : ~IsNan(x[i]) /\ ~IsNan(y[i + k])}

\* C11: at every lag, before any statistic is computed, a position of the
\* overlap window is missing in the x subset if and only if it is missing in
\* the y subset (it is so exactly when x[i] or y[i+k] is missing), and the
\* observation count in stats column 4 is the number of overlap positions
\* where both x[i] and y[i+k] are non-missing.
C11_SymmetricMask ==
    (cc.pc = "loop" /\ cc.passes > 0) =>
        LET k == cc.aa[1]
            W == Window(Size(cc.x), k)
        IN  /\ DOMAIN cc.xtmp = DOMAIN cc.ytmp
            /\ Size(cc.xtmp) = Cardinality(W)
            /\ \A j \in DOMAIN cc.xtmp :
                   /\ IsNan(cc.xtmp[j]) <=> IsNan(cc.ytmp[j])
                   /\ IsNan(cc.xtmp[j]) <=>
                          (IsNan(cc.x[First(W) + j]) \/ IsNan(cc.y[First(W) + j + k]))
                   /\ ~IsNan(cc.xtmp[j]) =>
                          /\ cc.xtmp[j] = cc.x[First(W) + j]
                          /\ cc.ytmp[j] = cc.y[First(W) + j + k]
            /\ cc.stats[k + cc.lags][4] =
                   ToRat(Cardinality(JointlyKept(cc.x, cc.y, k)))

\* a pass has masked a sample of x because its partner in y is missing and a
\* sample of y because its partner in x is missing, and has kept a pair
C11_Witness ==
    /\ cc.pc = "loop"
    /\ cc.passes > 0
    /\ LET k == cc.aa[1]
           f == First(Window(Size(cc.x), k))
       IN  /\ \E j \in DOMAIN cc.xtmp : IsNan(cc.xtmp[j]) /\ ~IsNan(cc.x[f + j])
           /\ \E j \in DOMAIN cc.ytmp : IsNan(cc.ytmp[j]) /\ ~IsNan(cc.y[f + j + k])
           /\ \E j \in DOMAIN cc.xtmp : ~IsNan(cc.xtmp[j])

\* C12: with norma=0 the divisor nn of the means and the cross-covariance at
\* a lag is the number of jointly non-missing pairs in that lag's window, with
\* norma=1 it is the nominal series length, and in both cases it is positive
\* whenever the window holds at least one jointly non-missing pair.
C12_Divisor ==
    (cc.pc = "loop" /\ cc.passes > 0) =>
        LET pairs == Cardinality(JointlyKept(cc.x, cc.y, cc.aa[1]))
        IN  /\ cc.norma = 0 => cc.nn[1] = ToRat(pairs)
            /\ cc.norma = 1 => cc.nn[1] = ToRat(Size(cc.x))
            /\ pairs >= 1 => cc.nn[1][1] > 0

\* the series has no missing sample and is not constant
NonConstant(x) ==
    /\ \A i \in DOMAIN x : IsFinite(x[i])
    /\ \E i \in DOMAIN x, j \in DOMAIN x : x[i] # x[j]

\* C13: for a non-constant series x with no missing values, cross_corr(x,x,L)
\* with the default normalisation (norma=1) reports at lag 0 a
\* cross-covariance equal to the product of the two reported standard
\* deviations (here: a non-negative covariance whose square is the product of
\* the two variances), hence a correlation coefficient of exactly 1; so does
\* cross_corr([1,2,3,4],[1,2,3,4], lags=1, norma=1).
C13_AutoPeak ==
    (cc.pc = "done" /\ cc.norma = 1 /\ cc.x = cc.y /\ NonConstant(cc.x)) =>
        LET row == cc.result[2][cc.lags]
        IN  /\ row[0] = ToRat(0)
            /\ IsFinite(row[1]) /\ row[1][1] > 0
            /\ XMul(row[1], row[1]) = XMul(row[2], row[3])
            /\ cc.result[1][cc.lags] = One(ToRat(1))

\* the call cross_corr([1,2,3,4],[1,2,3,4], lags=1, norma=1) has returned
C13_Witness ==
    /\ cc.pc = "done"
    /\ cc.x = Ramp4 /\ cc.y = Ramp4
    /\ cc.lags = 1 /\ cc.norma = 1 /\ ~cc.warned
    /\ cc.result[1][1] = One(ToRat(1))

\* what cross_corr(x, y, lags, norma) returns, for a supported norma
CrossCorr(x, y, lags, norma) ==
    <<[r \in 0..(2 * lags) |-> LagResult(x, y, r - lags, norma).rho],
      [r \in 0..(2 * lags) |-> LagResult(x, y, r - lags, norma).stats]>>

\* C14: for every norma other than 0 and 1, cross_corr emits a warning (and
\* only then), runs to its return without failure, and returns exactly the
\* rho and stats that cross_corr(x,y,L,1) returns.
C14_NormaCorrected ==
    [][ /\ cc.pc = "check" =>
            /\ cc'.pc = "alloc"
            /\ cc'.warned <=> (cc.norma # 0 /\ cc.norma # 1)
            /\ (cc'.warned => cc'.norma = 1)
        /\ cc.pc # "check" => (cc'.warned <=> cc.warned)
        /\ cc'.pc \in {"alloc", "loop", "return", "done"}
        /\ (cc'.pc = "done" /\ cc'.warned) =>
               cc'.result = CrossCorr(cc.x, cc.y, cc.lags, 1) ]_vars

\* a call with an unsupported norma has warned and returned a finite,
\* non-zero covariance
C14_Witness ==
    /\ cc.pc = "done"
    /\ cc.warned
    /\ \E r \in DOMAIN cc.result[2] :
           IsFinite(cc.result[2][r][1]) /\ cc.result[2][r][1][1] # 0

-----------------------------------------------------------------------------
(* boxcar(y, span)                                                         *)

\* longest series handed to boxcar
MaxBox == 4
\* largest span handed to boxcar
MaxSpan == 5

\* the element types of the array a caller hands in
DTypes == {"float", "int"}

\* the series a caller may hand in, their samples as exact values
BoxSeries(n) == {[i \in 0..(n - 1) |-> ToRat(a[i])] : a \in Arrays(n)}

\* a value as an array of the given element type stores it: an integer array
\* drops the fractional part
Cast(v, dtype) ==
    IF dtype = "int" THEN ToRat(Sign(v[1]) * (Abs(v[1]) \div v[2])) ELSE v

\* np.sum(y[lo:hi], axis=0)
SliceSum(y, lo, hi) == RSumTo(Slice(y, lo, hi), Size(Slice(y, lo, hi)))

\* the width had an even span been widened to span + 1
WidthUp(span) == span + 1 - (span % 2)

\* line 530: width = span - 1 + span % 2
Width(span) == span - 1 + (span % 2)

\* line 531: offset = np.int((width - 1.0)/2.0)
Offset(width) == (width - 1) \div 2

\* line 537: first = np.int(np.ceil(width/2.0) - 1.0)
FirstOf(width) == Ceil(width, 2) - 1

\* line 538: last = np.int(y.shape[0] - first - 1.0)
LastOf(n, first) == n - first - 1

\* slices[a] is the slice <<lo, hi>> of y that was summed for ybox[a], writes[a]
\* the number of assignments to ybox[a], it the next value of the running loop
BoxFrame(y, dtype, span) ==
    [pc |-> "check", y |-> y, dtype |-> dtype, span |-> span,
     width |-> Unbound, offset |-> Unbound, first |-> Unbound, last |-> Unbound,
     ybox |-> Empty, aa |-> Unbound, it |-> 0,
     writes |-> Empty, slices |-> Empty, result |-> Unbound]

\* what a boxcar call leaves alone
BoxOthers == <<ba, heap, orig, pr, cc, sl, sd, sc, pw, ru, af>>

BoxInit ==
    /\ sd = Idle
    /\ sc = Idle
    /\ pw = Idle
    /\ ru = Idle
    /\ af = Idle
    /\ ba = Idle
    /\ heap = <<>>
    /\ orig = <<>>
    /\ pr = <<>>
    /\ cc = Idle
    /\ sl = Idle
    /\ \E n \in 1..MaxBox :
           \E y \in BoxSeries(n), dtype \in DTypes, span \in 1..MaxSpan :
               bx = BoxFrame(y, dtype, span)

\* the data check had it refused a span equal to the length as well
BoxCheckAtLeast ==
    /\ bx.pc = "check"
    /\ UNCHANGED BoxOthers
    /\ IF bx.span >= Size(bx.y)
       THEN bx' = [bx EXCEPT !.pc = "exited"]
       ELSE bx' = [bx EXCEPT !.pc = "setup"]

\* lines 523-526: quick data check; sys.exit() ends the process
BoxCheck ==
    /\ bx.pc = "check"
    /\ UNCHANGED BoxOthers
    /\ IF bx.span > Size(bx.y)
       THEN bx' = [bx EXCEPT !.pc = "exited"]
       ELSE bx' = [bx EXCEPT !.pc = "setup"]

\* lines 530-538: width, offset, the preallocated ybox, first and last
BoxSetup ==
    /\ bx.pc = "setup"
    /\ UNCHANGED BoxOthers
    /\ bx' = [bx EXCEPT !.width = Bound(Width(bx.span)),
                        !.offset = Bound(Offset(Width(bx.span))),
                        !.ybox = Zeros(Size(bx.y)),
                        !.writes = [i \in DOMAIN bx.y |-> 0],
                        !.slices = [i \in DOMAIN bx.y |-> Unbound],
                        !.first = Bound(FirstOf(Width(bx.span))),
                        !.last = Bound(LastOf(Size(bx.y), FirstOf(Width(bx.span)))),
                        !.it = FirstOf(Width(bx.span)),
                        !.pc = "main"]

\* ybox[aa] = np.sum(y[lo:hi], axis=0) / divisor, stored in an array of y's
\* element type; the loop moves on
Assigned(f, aa, lo, hi, divisor) ==
    [f EXCEPT !.aa = Bound(aa), !.it = aa + 1,
              !.ybox[aa] = Cast(XDiv(SliceSum(f.y, lo, hi), ToRat(divisor)), f.dtype),
              !.writes[aa] = f.writes[aa] + 1,
              !.slices[aa] = <<lo, hi>>]

\* lines 540-541: for aa in range(first, last+1)
BoxMain ==
    /\ bx.pc = "main"
    /\ bx.it <= bx.last[1]
    /\ UNCHANGED BoxOthers
    /\ bx' = Assigned(bx, bx.it, bx.it - bx.offset[1], bx.it + bx.offset[1] + 1,
                      bx.width[1])

\* line 540: the range is exhausted; line 544 starts range(0, first)
BoxMainEnd ==
    /\ bx.pc = "main"
    /\ bx.it > bx.last[1]
    /\ UNCHANGED BoxOthers
    /\ bx' = [bx EXCEPT !.pc = "head", !.it = 0]

\* lines 544-546: for aa in range(0, first)
BoxHead ==
    /\ bx.pc = "head"
    /\ bx.it < bx.first[1]
    /\ UNCHANGED BoxOthers
    /\ bx' = Assigned(bx, bx.it, 0, bx.it + bx.offset[1] + 1,
                      bx.it + bx.offset[1] + 1)

\* line 544: the range is exhausted; line 548 starts range(last+1, y.shape[0])
BoxHeadEnd ==
    /\ bx.pc = "head"
    /\ bx.it >= bx.first[1]
    /\ UNCHANGED BoxOthers
    /\ bx' = [bx EXCEPT !.pc = "tail", !.it = bx.last[1] + 1]

\* the end treatment had it divided by the full width, as zero-padding would
BoxTailPadded ==
    /\ bx.pc = "tail"
    /\ bx.it < Size(bx.y)
    /\ UNCHANGED BoxOthers
    /\ bx' = Assigned(bx, bx.it, bx.it - bx.offset[1], Size(bx.y), bx.width[1])

\* lines 548-550: for aa in range(last+1, y.shape[0])
BoxTail ==
    /\ bx.pc = "tail"
    /\ bx.it < Size(bx.y)
    /\ UNCHANGED BoxOthers
    /\ bx' = Assigned(bx, bx.it, bx.it - bx.offset[1], Size(bx.y),
                      Size(bx.y) - bx.it + bx.offset[1])

\* lines 548, 552: the range is exhausted; return ybox
BoxReturn ==
    /\ bx.pc = "tail"
    /\ bx.it >= Size(bx.y)
    /\ UNCHANGED BoxOthers
    /\ bx' = [bx EXCEPT !.result = Bound(bx.ybox), !.pc = "done"]

BoxNext ==
    \/ BoxCheck \/ BoxSetup \/ BoxMain \/ BoxMainEnd
    \/ BoxHead \/ BoxHeadEnd \/ BoxTail \/ BoxReturn

SpecBox == BoxInit /\ [][BoxNext]_vars

(* Claims about boxcar.                                                    *)

\* C15: the effective window width used by boxcar(y, span) is the nearest odd
\* value greater than or equal to span: span when span is odd, span+1 when
\* span is even.
C15_OddWidth ==
    bx.pc \in {"main", "head", "tail", "done"} =>
        bx.width[1] = (IF bx.span % 2 = 1 THEN bx.span ELSE bx.span + 1)

\* max(0, a - offset) and min(n - 1, a + offset)
WinLow(a, offset) == IF a - offset < 0 THEN 0 ELSE a - offset
WinHigh(a, offset, n) == IF a + offset > n - 1 THEN n - 1 ELSE a + offset

\* the mean of y[lo..hi], lo <= hi
WindowMean(y, lo, hi) ==
    RMul(RSumTo([i \in 0..(hi - lo) |-> y[lo + i]], hi - lo + 1), Rat(1, hi - lo + 1))

\* every output index has been assigned once, from a slice that stays inside
\* the series and spans max(0, a-offset) .. min(N-1, a+offset), and holds the
\* mean of the samples of that range
WindowedBy(offset) ==
    /\ DOMAIN bx.result[1] = DOMAIN bx.y
    /\ \A a \in DOMAIN bx.y :
           /\ bx.writes[a] = 1
           /\ bx.slices[a][1] >= 0 /\ bx.slices[a][2] <= Size(bx.y)
           /\ bx.slices[a] = <<WinLow(a, offset), WinHigh(a, offset, Size(bx.y)) + 1>>
           /\ bx.result[1][a] =
                  WindowMean(bx.y, WinLow(a, offset), WinHigh(a, offset, Size(bx.y)))

\* C16: for every N >= 1 and every span with 1 <= span <= N, boxcar assigns
\* each output index 0..N-1 exactly once, and output[a] is the sum of the
\* samples at indices max(0, a-offset) .. min(N-1, a+offset), offset being
\* half the effective width (span if odd, span+1 if even), divided by the
\* number of samples in that range; no out-of-range or negative index is read.
C16_Window ==
    bx.pc = "done" => WindowedBy((IF bx.span % 2 = 1 THEN bx.span ELSE bx.span + 1) \div 2)

\* the same with the offset of line 531, for float arrays only
BoxWindowOfCode ==
    (bx.pc = "done" /\ bx.dtype = "float") => WindowedBy(bx.offset[1])

\* C17: for a constant series (all samples equal to c) of length N >= 1 and
\* every span with 1 <= span <= N, boxcar returns a series of the same length
\* whose every element equals c, at interior points and at both edges.
C17_Constant ==
    (bx.pc = "done" /\ \A i \in DOMAIN bx.y : bx.y[i] = bx.y[0]) =>
        /\ DOMAIN bx.result[1] = DOMAIN bx.y
        /\ \A a \in DOMAIN bx.y : bx.result[1][a] = bx.y[0]

\* a non-zero constant series has been filtered with interior points and
\* points at both edges
C17_Witness ==
    /\ bx.pc = "done"
    /\ \A i \in DOMAIN bx.y : bx.y[i] = bx.y[0]
    /\ bx.y[0] # ToRat(0)
    /\ bx.first[1] > 0
    /\ bx.first[1] < bx.last[1]
    /\ bx.last[1] < Size(bx.y) - 1

\* C18: boxcar fails when the span is too large and only then: if span > length
\* of y the call exits without returning an array and without computing any
\* output element; if 1 <= span <= length of y it does not exit and returns an
\* array of the same shape as y.
C18_SpanCheck ==
    /\ bx.span > Size(bx.y) =>
           /\ bx.pc \in {"check", "exited"}
           /\ bx.result = Unbound
           /\ bx.ybox = Empty /\ bx.writes = Empty /\ bx.aa = Unbound
    /\ bx.span <= Size(bx.y) =>
           /\ bx.pc \in {"check", "setup", "main", "head", "tail", "done"}
           /\ bx.pc = "done" => DOMAIN bx.result[1] = DOMAIN bx.y

\* a call with a span one above the length has exited
C18_Witness ==
    /\ bx.pc = "exited"
    /\ bx.span = Size(bx.y) + 1
    /\ Size(bx.y) >= 2

-----------------------------------------------------------------------------
(* smooth1d_loess(data, data_grid, span_x, est_grid)                       *)

\* longest data series handed to smooth1d_loess
MaxGrid == 3
\* longest estimate grid handed to smooth1d_loess
MaxEst == 2

\* the spans for which every fit has at most three points, so that the
\* least-squares problem of line 727 is solved exactly in this arithmetic
Spans == {1, 2}

\* the data a caller may hand in: missing or small samples, and a ramp
DataSeries(n) == SeriesOf(n) \cup {[i \in 0..(n - 1) |-> ToRat(i + 1)]}

\* the grid 0., 1., ..., n-1. on which the data are located
GridOf(n) == [i \in 0..(n - 1) |-> ToRat(i)]

\* the estimate grids a caller may hand in: up to MaxEst locations, in any
\* order, from one grid step below the data grid to one above
EstGrids(n) ==
    UNION {[0..(m - 1) -> {ToRat(v) : v \in -1..n}] : m \in 1..MaxEst}

\* p < q and p > q for two fractions
RLess(p, q) == p[1] * q[2] < q[1] * p[2]
RGreater(p, q) == RLess(q, p)

\* a.min() and a.max() for a non-empty array of fractions
RMin(a) == a[CHOOSE i \in DOMAIN a : \A j \in DOMAIN a : ~RLess(a[j], a[i])]
RMax(a) == a[CHOOSE i \in DOMAIN a : \A j \in DOMAIN a : ~RLess(a[i], a[j])]

\* a/span_x, element by element
Over(a, span_x) == [i \in DOMAIN a |-> RMul(a[i], Rat(1, span_x))]

\* np.abs of a fraction
RAbs(p) == <<Abs(p[1]), p[2]>>

\* line 697: dx = data_grid - est_grid[ii]
Dx(data_grid, e) == [i \in DOMAIN data_grid |-> RSub(data_grid[i], e)]

\* lines 698-699: igood = np.logical_and(distx < 1, data_finite_flag), as the
\* set of the indices it selects
IGood(dx, data_finite_flag) ==
    {i \in DOMAIN dx : RLess(RAbs(dx[i]), ToRat(1)) /\ data_finite_flag[i]}

\* a[igood]: the selected elements in index order
RECURSIVE Select(_, _, _)
Select(a, igood, k) ==
    IF k = 0 THEN <<>>
    ELSE IF (k - 1) \in igood THEN Append(Select(a, igood, k - 1), a[k - 1])
    ELSE Select(a, igood, k - 1)
Selected(a, igood) == Arr(Select(a, igood, Size(a)))

\* line 713: w = (1.0 - distsel**3)**3
Tricube(d) ==
    LET c == RSub(ToRat(1), RMul(d, RMul(d, d))) IN RMul(c, RMul(c, c))
Weights(dxsel) == [i \in DOMAIN dxsel |-> Tricube(RAbs(dxsel[i]))]

\* lines 716-735: B[0][0] of np.linalg.lstsq(xin, w*datareg) for three points
\* at distinct locations. Row i of xin is w[i]*(1, x, x^2) and the right-hand
\* side is w[i]*datareg[i] with w[i] > 0, so the system is square and of full
\* rank, its least-squares solution is its solution, and the first coefficient
\* is the value at 0 of the parabola through the three points.
Lstsq0(dxsel, datareg) ==
    LET lag(i, j, k) ==
            LET num == RMul(dxsel[j], dxsel[k])
                den == RMul(RSub(dxsel[i], dxsel[j]), RSub(dxsel[i], dxsel[k]))
            IN  RMul(datareg[i], Rat(num[1] * den[2], num[2] * den[1]))
    IN  RAdd(lag(0, 1, 2), RAdd(lag(1, 0, 2), lag(2, 0, 1)))

\* lines 737-738: the flag is set to 1 when the estimate is strictly inside
\* the range of the data used in the fit
FlagAfter(flag, b00, datareg) ==
    IF RGreater(b00, RMin(datareg)) /\ RLess(b00, RMax(datareg)) THEN ToRat(1) ELSE flag

\* np.zeros_like(a)*np.NaN
Nans(a) == [i \in DOMAIN a |-> NaN]

\* the arg_ fields are the arrays of the caller; est stands for the argument
\* est_grid, Unbound when it is left to its default None; returned is "no"
\* before the call returns, "none" after a bare return and "pair" after
\* return sm_data,flag; ii is the next value of range(est_grid.shape[0])
LoessFrame(data, data_grid, span_x, est) ==
    [pc |-> "entry", data |-> data, arg_data_grid |-> data_grid, span_x |-> span_x,
     arg_est_grid |-> est, data_grid |-> Empty, est_grid |-> Empty,
     data_finite_flag |-> Empty, sm_data |-> Empty, flag |-> Empty,
     ii |-> 0, ngood |-> Unbound, w |-> Empty, returned |-> "no", result |-> <<>>]

\* what a smooth1d_loess call leaves alone
LoessOthers == <<ba, heap, orig, pr, cc, bx, sd, sc, pw, ru, af>>

LoessInit ==
    /\ sd = Idle
    /\ sc = Idle
    /\ pw = Idle
    /\ ru = Idle
    /\ af = Idle
    /\ ba = Idle
    /\ heap = <<>>
    /\ orig = <<>>
    /\ pr = <<>>
    /\ cc = Idle
    /\ bx = Idle
    /\ \E n \in 1..MaxGrid :
           \E data \in DataSeries(n), span_x \in Spans,
              est \in {Bound(e) : e \in EstGrids(n)} \cup {Unbound} :
               sl = LoessFrame(data, GridOf(n), span_x, est)

\* lines 673-685: the default estimate grid, the data check, the preallocated
\* outputs and the grids normalised by span_x
LoessEntry ==
    /\ sl.pc = "entry"
    /\ UNCHANGED LoessOthers
    /\ LET est == IF sl.arg_est_grid = Unbound THEN sl.arg_data_grid
                  ELSE sl.arg_est_grid[1]
       IN  sl' = [sl EXCEPT !.data_finite_flag = [i \in DOMAIN sl.data |-> IsFinite(sl.data[i])],
                            !.sm_data = Nans(est),
                            !.flag = Nans(est),
                            !.data_grid = Over(sl.arg_data_grid, sl.span_x),
                            !.est_grid = Over(est, sl.span_x),
                            !.pc = "loop"]

\* the loop is at a point of the estimate grid
AtPoint == sl.pc = "loop" /\ sl.ii < Size(sl.est_grid)

\* line 692: est_grid[ii] < data_grid.min()
BelowGrid == RLess(sl.est_grid[sl.ii], RMin(sl.data_grid))

\* line 694: est_grid[ii] > data_grid.max()
AboveGrid == RGreater(sl.est_grid[sl.ii], RMax(sl.data_grid))

\* lines 697-700: the usable points of the current estimate point
GoodHere == IGood(Dx(sl.data_grid, sl.est_grid[sl.ii]), sl.data_finite_flag)

\* lines 692-693: the point is below the data grid: continue
LoessBelow ==
    /\ AtPoint
    /\ BelowGrid
    /\ UNCHANGED LoessOthers
    /\ sl' = [sl EXCEPT !.ii = sl.ii + 1]

\* lines 694-695: the point is above the data grid: a bare return
LoessAbove ==
    /\ AtPoint
    /\ ~BelowGrid
    /\ AboveGrid
    /\ UNCHANGED LoessOthers
    /\ sl' = [sl EXCEPT !.ii = sl.ii + 1, !.returned = "none", !.pc = "done"]

\* lines 697-705: fewer than 3 usable points: continue
LoessGap ==
    /\ AtPoint
    /\ ~BelowGrid
    /\ ~AboveGrid
    /\ Cardinality(GoodHere) < 3
    /\ UNCHANGED LoessOthers
    /\ sl' = [sl EXCEPT !.ii = sl.ii + 1, !.ngood = Bound(Cardinality(GoodHere))]

\* the frame after the fit on the selected data and locations
Fitted(f, datareg, dxsel) ==
    [f EXCEPT !.ii = f.ii + 1, !.ngood = Bound(Size(datareg)),
              !.w = Weights(dxsel),
              !.sm_data[f.ii] = Lstsq0(dxsel, datareg),
              !.flag[f.ii] = FlagAfter(f.flag[f.ii], Lstsq0(dxsel, datareg), datareg)]

\* lines 697-738: the regression at a point with 3 usable points
LoessFit ==
    /\ AtPoint
    /\ ~BelowGrid
    /\ ~AboveGrid
    /\ Cardinality(GoodHere) = 3
    /\ UNCHANGED LoessOthers
    /\ sl' = Fitted(sl, Selected(sl.data, GoodHere),
                    Selected(Dx(sl.data_grid, sl.est_grid[sl.ii]), GoodHere))

\* lines 689, 742: the range is exhausted; return sm_data,flag
LoessReturn ==
    /\ sl.pc = "loop"
    /\ sl.ii >= Size(sl.est_grid)
    /\ UNCHANGED LoessOthers
    /\ sl' = [sl EXCEPT !.result = <<sl.sm_data, sl.flag>>, !.returned = "pair",
                        !.pc = "done"]

LoessNext ==
    \/ LoessEntry \/ LoessBelow \/ LoessAbove \/ LoessGap \/ LoessFit \/ LoessReturn

SpecLoess == LoessInit /\ [][LoessNext]_vars

(* Claims about smooth1d_loess.                                            *)

\* point i of the (normalised) estimate grid lies outside the data grid
OutOfDomain(i) ==
    \/ RLess(sl.est_grid[i], RMin(sl.data_grid))
    \/ RGreater(sl.est_grid[i], RMax(sl.data_grid))

\* point i is in the domain and has at least 3 usable input points
Estimable(i) ==
    /\ ~OutOfDomain(i)
    /\ Cardinality(IGood(Dx(sl.data_grid, sl.est_grid[i]), sl.data_finite_flag)) >= 3

\* C19: for every data, data_grid, span_x and est_grid, including est_grid
\* points below the minimum or above the maximum of data_grid, the call
\* returns the pair (sm_data, flag), each as long as est_grid, with every
\* point that was not estimated marked NaN and every point estimated before
\* an out-of-range point retained.
C19_PartialResult ==
    sl.pc = "done" =>
        /\ sl.returned = "pair"
        /\ DOMAIN sl.result[1] = DOMAIN sl.est_grid
        /\ DOMAIN sl.result[2] = DOMAIN sl.est_grid
        /\ \A i \in DOMAIN sl.est_grid :
               /\ ~Estimable(i) => (IsNan(sl.result[1][i]) /\ IsNan(sl.result[2][i]))
               /\ (Estimable(i) /\ \A j \in 0..(i - 1) : ~OutOfDomain(j)) =>
                      ~IsNan(sl.result[1][i])

\* C20: an output-grid point below data_grid's minimum or above its maximum
\* halts processing for all subsequent output points: every output point
\* after the first out-of-domain point in est_grid order is left unestimated,
\* whichever bound was violated.
C20_HaltsAfterOutOfDomain ==
    sl.pc \in {"loop", "done"} =>
        \A i \in DOMAIN sl.est_grid :
            (\E j \in 0..(i - 1) : OutOfDomain(j)) =>
                /\ sl.ii <= i \/ sl.pc = "done"
                /\ IsNan(sl.sm_data[i])
                /\ IsNan(sl.flag[i])

\* the usable input points of point i of the estimate grid
UsableAt(i) == IGood(Dx(sl.data_grid, sl.est_grid[i]), sl.data_finite_flag)

\* the loop has been at every point before ii; those from ii on are still to
\* come, or are never reached when the call has returned from inside the loop
Visited(i) == i < sl.ii

\* the gap rule on the points the loop has been at
LoessGapsOfVisited ==
    sl.pc \in {"loop", "done"} =>
        \A i \in DOMAIN sl.est_grid :
            (Visited(i) /\ ~OutOfDomain(i)) =>
                IF Cardinality(UsableAt(i)) < 3
                THEN IsNan(sl.sm_data[i]) /\ IsNan(sl.flag[i])
                ELSE ~IsNan(sl.sm_data[i])

\* C21: an in-domain output point with fewer than 3 usable input points is a
\* gap, not an error: its sm_data and flag entries stay NaN, no regression is
\* attempted and the loop continues with the next output point; a point with
\* 3 or more usable points always gets an sm_data value.
C21_Gaps ==
    /\ sl.pc \in {"loop", "done"} =>
           \A i \in DOMAIN sl.est_grid :
               (Visited(i) /\ ~OutOfDomain(i) /\ Cardinality(UsableAt(i)) < 3) =>
                   /\ IsNan(sl.sm_data[i]) /\ IsNan(sl.flag[i])
                   /\ sl.returned # "none" \/ sl.ii > i + 1
    /\ sl.pc = "done" =>
           \A i \in DOMAIN sl.est_grid :
               Estimable(i) => (sl.returned = "pair" /\ ~IsNan(sl.result[1][i]))

\* the data values used in the local fit of point i
DataUsedAt(i) == Selected(sl.data, UsableAt(i))

\* C22: for every estimated output point, flag is 1 when the smoothed
\* estimate lies outside the range [min, max] of the data values used in that
\* point's local fit, and 0 otherwise.
C22_Flag ==
    sl.pc \in {"loop", "done"} =>
        \A i \in DOMAIN sl.est_grid :
            (Visited(i) /\ ~IsNan(sl.sm_data[i])) =>
                sl.flag[i] =
                    (IF \/ RLess(sl.sm_data[i], RMin(DataUsedAt(i)))
                        \/ RGreater(sl.sm_data[i], RMax(DataUsedAt(i)))
                     THEN ToRat(1) ELSE ToRat(0))

-----------------------------------------------------------------------------
(* slow_dft (src/data/signal.py, lines 749-799): the discrete Fourier      *)
(* transform by direct double summation, at the Fourier frequencies of the *)
(* record or at the frequencies passed in freq.                            *)

\* the record lengths the slow transform is run on
SdLens == {1, 2, 3, 4}

\* exp(+2*pi*i*r), the exponent with its sign lost
ExpTurnPlus(r) ==
    LET t == (r[1] * (12 \div r[2])) % 12
    IN  <<Cos12(t), Cos12((t + 9) % 12)>>

\* np.exp(-2j*np.pi*r) for a fraction r of a turn whose denominator divides 12
ExpTurn(r) ==
    LET t == (r[1] * (12 \div r[2])) % 12
    IN  <<Cos12(t), SNeg(Cos12((t + 9) % 12))>>

\* lines 790-793: the fraction of a turn in the exponent of term bb
SDPhase(freq, dt, N, aa, bb) ==
    IF freq = Unbound THEN Rat(aa * bb, N)
    ELSE RMul(RMul(ToRat(bb), freq[1][aa]), ToRat(dt))

RECURSIVE SDSum(_, _, _, _, _, _)
\* lines 785-793: tmpsum after the terms bb = 0..m-1
SDSum(yt, freq, dt, N, aa, m) ==
    IF m = 0 THEN CZero
    ELSE CAdd(SDSum(yt, freq, dt, N, aa, m - 1),
              CScale(ExpTurn(SDPhase(freq, dt, N, aa, m - 1)), FromRat(yt[m - 1])))

\* the frequency lists passed explicitly: the N Fourier frequencies k/(N*dt),
\* and the first N/2+1 of them
FreqLists(N, dt) ==
    {[k \in 0..(m - 1) |-> Rat(k, N * dt)] : m \in {N, N \div 2 + 1}}

SDFrame(yt, freq, dt) ==
    [pc |-> "size", yt |-> yt, freq |-> freq, dt |-> dt, N |-> Unbound,
     N_fourier |-> Unbound, yf |-> Unbound, aa |-> 0, result |-> Unbound]

SDOthers == <<ba, heap, orig, pr, cc, bx, sl, sc, pw, ru, af>>

SDInit ==
    /\ ba = Idle
    /\ heap = <<>>
    /\ orig = <<>>
    /\ pr = <<>>
    /\ cc = Idle
    /\ bx = Idle
    /\ sl = Idle
    /\ sc = Idle
    /\ pw = Idle
    /\ ru = Idle
    /\ af = Idle
    /\ \E n \in SdLens, dt \in 1..MaxDt :
          \E yt \in Series(n) :
             \E freq \in {Unbound} \cup {Bound(f) : f \in FreqLists(n, dt)} :
                sd = SDFrame(yt, freq, dt)

\* line 771: N = yt.shape[0]
SDSize ==
    /\ sd.pc = "size"
    /\ UNCHANGED SDOthers
    /\ sd' = [sd EXCEPT !.N = Size(sd.yt), !.pc = "alloc"]

\* lines 774-779: yf and N_fourier
SDAlloc ==
    /\ sd.pc = "alloc"
    /\ UNCHANGED SDOthers
    /\ LET like == IF sd.freq = Unbound THEN sd.yt ELSE sd.freq[1]
       IN  sd' = [sd EXCEPT !.yf = [k \in DOMAIN like |-> CZero],
                            !.N_fourier = Size(like),
                            !.pc = "loop"]

\* lines 782-796: one pass of the loop over the Fourier frequencies
SDCoef ==
    /\ sd.pc = "loop"
    /\ sd.aa < sd.N_fourier
    /\ UNCHANGED SDOthers
    /\ LET tmpsum == SDSum(sd.yt, sd.freq, sd.dt, sd.N, sd.aa, sd.N)
       IN  sd' = [sd EXCEPT !.yf[sd.aa] = CScale(tmpsum, <<1, 0, sd.N>>),
                            !.aa = sd.aa + 1]

\* line 799: return yf
SDReturn ==
    /\ sd.pc = "loop"
    /\ sd.aa = sd.N_fourier
    /\ UNCHANGED SDOthers
    /\ sd' = [sd EXCEPT !.result = Bound(sd.yf), !.pc = "done"]

SDNext == SDSize \/ SDAlloc \/ SDCoef \/ SDReturn

SpecSD == SDInit /\ [][SDNext]_vars

(* Claims about slow_dft.                                                  *)

\* C23: slow_dft(yt) returns N coefficients, coefficient k being (1/N) times
\* the sum over b of yt[b]*exp(-2*pi*i*k*b/N), which is np.fft.fft(yt)/N as
\* psdraw uses it; with freq[k] = k/(N*dt) passed together with that dt the
\* result is the same as on the default path.
C23_Oracle ==
    sd.pc = "done" =>
        LET yf == sd.result[1]
            ref == Divided(Fft(sd.yt), Size(sd.yt))
        IN  /\ \A k \in DOMAIN yf : yf[k] = ref[k]
            /\ (sd.freq = Unbound \/ Size(sd.freq[1]) = Size(sd.yt)) => yf = ref

\* a call with the full frequency list and dt > 1 has returned an asymmetric
\* series' coefficients, one of them not real
C23_Witness ==
    /\ sd.pc = "done"
    /\ sd.freq # Unbound
    /\ sd.dt > 1
    /\ Size(sd.freq[1]) = Size(sd.yt)
    /\ \E k \in DOMAIN sd.result[1] : sd.result[1][k][2] # <<0, 0, 1>>

-----------------------------------------------------------------------------
(* squared_coherence (src/data/signal.py, lines 316-418): the band-averaged *)
(* cross- and auto-spectra of two series, their squared coherence and the  *)
(* phase spectrum, in the exact arithmetic of the transform above.         *)

SZero == <<0, 0, 1>>
\* the not-a-number of the reals held as <<p, q, d>>
SNaN == <<0, 0, 0>>
CNaN == <<SNaN, SNaN>>

\* the sign of (p + q*sqrt(3))/d, d > 0
SSign(x) ==
    LET p == x[1]
        q == x[2]
    IN  IF p >= 0 /\ q >= 0 THEN (IF p = 0 /\ q = 0 THEN 0 ELSE 1)
        ELSE IF p <= 0 /\ q <= 0 THEN -1
        ELSE IF p > 0 THEN Sign(p * p - 3 * q * q)
        ELSE Sign(3 * q * q - p * p)

SLeq(x, y) == SSign(SAdd(y, SNeg(x))) >= 0

\* 1/x for x not zero
SInv(x) == Surd(x[1] * x[3], -(x[2] * x[3]), x[1] * x[1] - 3 * x[2] * x[2])

\* one part of a complex number over a real zero
SOverZero(x) == IF x = SZero THEN SNaN ELSE <<SSign(x), 0, 0>>

\* a complex array element divided by an element of a real array that is not
\* negative; a value that is not finite stays as it is
CDivReal(u, r) ==
    IF u[1][3] = 0 \/ u[2][3] = 0 THEN u
    ELSE IF r = SZero THEN <<SOverZero(u[1]), SOverZero(u[2])>>
    ELSE CScale(u, SInv(r))

RECURSIVE CSumTo(_, _)
\* a[0] + ... + a[k-1] for an array of complex numbers
CSumTo(a, k) == IF k = 0 THEN CZero ELSE CAdd(CSumTo(a, k - 1), a[k - 1])

\* np.mean of an array of complex numbers; not-a-number for an empty one
CMean(a) == IF Size(a) = 0 THEN CNaN ELSE CScale(CSumTo(a, Size(a)), <<1, 0, Size(a)>>)

\* np.mean of an array of fractions; not-a-number for an empty one
FreqMean(a) == IF Size(a) = 0 THEN NaN ELSE RMean(a)

\* lines 458-461: np.sum(np.iscomplex(psd)) > 0
AnyComplex(psd) == \E k \in DOMAIN psd : psd[k][2] # SZero

\* a value stored into psd_ba: an array of reals keeps the real part only
StoredAs(v, complex) == IF complex THEN v ELSE <<v[1], SZero>>

\* lines 452-484: band_averaging(psd, freq, stencil) of a spectrum of complex
\* numbers, <<freq_ba, psd_ba>> in a Bound, or Unbound when the call raises
\* (the division of line 455 for a zero stencil, ind_high at line 480 when
\* the loop of line 469 has no pass)
BandAveraging(psd, freq, stencil) ==
    IF stencil = 0 THEN Unbound
    ELSE LET n       == Size(psd)
             Nout    == NoutOf(n, stencil)
             complex == AnyComplex(psd)
             last    == IndHigh(IndLow(Nout - 2, stencil), stencil)
             lowOf(aa)  == IF aa = Nout - 1 THEN last ELSE IndLow(aa, stencil)
             highOf(aa) == IF aa = Nout - 1 THEN n ELSE IndHigh(IndLow(aa, stencil), stencil)
         IN  IF Nout < 3 THEN Unbound
             ELSE Bound(<<[aa \in 0..(Nout - 1) |->
                              IF aa = 0 THEN freq[0]
                              ELSE FreqMean(Slice(freq, lowOf(aa), highOf(aa)))],
                          [aa \in 0..(Nout - 1) |->
                              IF aa = 0 THEN StoredAs(psd[0], complex)
                              ELSE StoredAs(CMean(Slice(psd, lowOf(aa), highOf(aa))), complex)]>>)

\* the record lengths of the two series
CohLens == {1, 2, 3, 4, 6, 12}

\* a unit spike at 0 and a spike of height c at p
Spike(n, p, c) ==
    [i \in 0..(n - 1) |-> ToRat(IF i = 0 THEN 1 ELSE IF i = p THEN c ELSE 0)]

\* the series handed in: one spike, or two of equal or opposite height
CohSeries(n) ==
    {Spike(n, 0, 0)} \cup {Spike(n, p, c) : p \in {q \in {1, 2, 3, 6} : q < n}, c \in {-1, 1}}

\* the stencil is a Python int or a numpy integer
StencilTypes == {"int", "numpy.int64"}

SCFrame(x, y, stencil, stencil_type, dt) ==
    [pc |-> "size", x |-> x, y |-> y, stencil |-> stencil,
     stencil_type |-> stencil_type, dt |-> dt, N |-> Unbound, fj |-> Unbound,
     xf |-> Unbound, yf |-> Unbound, sxy_conj |-> Unbound, sxy |-> Unbound,
     sxx |-> Unbound, syy |-> Unbound, fj_ba |-> Unbound,
     sxy_conj_ba |-> Unbound, sxy_ba |-> Unbound, sxx_ba |-> Unbound,
     syy_ba |-> Unbound, pxy_ba |-> Unbound, g2 |-> Unbound, g2crit |-> Unbound,
     pcl |-> Unbound, tl |-> Unbound, result |-> Unbound]

SCOthers == <<ba, heap, orig, pr, cc, bx, sl, sd, pw, ru, af>>

SCInit ==
    /\ ba = Idle
    /\ heap = <<>>
    /\ orig = <<>>
    /\ pr = <<>>
    /\ cc = Idle
    /\ bx = Idle
    /\ sl = Idle
    /\ sd = Idle
    /\ pw = Idle
    /\ ru = Idle
    /\ af = Idle
    /\ \E n \in CohLens, stencil \in 0..MaxStencil, dt \in 1..MaxDt :
          \E x \in CohSeries(n), y \in CohSeries(n), stencil_type \in StencilTypes :
             sc = SCFrame(x, y, stencil, stencil_type, dt)

\* lines 357-360: N and the Fourier frequencies
SCFreq ==
    /\ sc.pc = "size"
    /\ UNCHANGED SCOthers
    /\ LET N == Size(sc.x)
       IN  sc' = [sc EXCEPT !.N = N, !.fj = FftFreq(N, sc.dt), !.pc = "fft"]

\* lines 364-365: xf and yf
SCFft ==
    /\ sc.pc = "fft"
    /\ UNCHANGED SCOthers
    /\ sc' = [sc EXCEPT !.xf = Divided(Fft(sc.x), sc.N),
                        !.yf = Divided(Fft(sc.y), sc.N),
                        !.pc = "spectra"]

\* the cross-spectrum without the conjugate on xf
SxyUnconjugated(N, dt, xf, yf) ==
    [k \in DOMAIN xf |-> CScale(CMul(xf[k], yf[k]), <<N * dt, 0, 1>>)]

\* line 367: sxy_conj = N*dt*xf*np.conjugate(yf)
SxyConj(N, dt, xf, yf) ==
    [k \in DOMAIN xf |-> CScale(CMul(xf[k], Conjugate(yf[k])), <<N * dt, 0, 1>>)]

\* line 368: sxy = N*dt*np.conjugate(xf)*yf
Sxy(N, dt, xf, yf) ==
    [k \in DOMAIN xf |-> CScale(CMul(Conjugate(xf[k]), yf[k]), <<N * dt, 0, 1>>)]

\* lines 367-370: the two-sided cross- and auto-spectra
SCSpectra ==
    /\ sc.pc = "spectra"
    /\ UNCHANGED SCOthers
    /\ sc' = [sc EXCEPT !.sxy_conj = SxyConj(sc.N, sc.dt, sc.xf, sc.yf),
                        !.sxy = Sxy(sc.N, sc.dt, sc.xf, sc.yf),
                        !.sxx = Power(sc.N, sc.dt, sc.xf),
                        !.syy = Power(sc.N, sc.dt, sc.yf),
                        !.pc = "positive"]

\* line 373: freq_ind = fj >= 0, as the set of the indices it selects
FreqInd(fj) == {k \in DOMAIN fj : fj[k][1] >= 0}

\* lines 373-378: only the positive side of the spectrum
SCPositive ==
    /\ sc.pc = "positive"
    /\ UNCHANGED SCOthers
    /\ LET freq_ind == FreqInd(sc.fj)
       IN  sc' = [sc EXCEPT !.fj = Selected(sc.fj, freq_ind),
                            !.sxy_conj = Selected(sc.sxy_conj, freq_ind),
                            !.sxy = Selected(sc.sxy, freq_ind),
                            !.sxx = Selected(sc.sxx, freq_ind),
                            !.syy = Selected(sc.syy, freq_ind),
                            !.pc = "band"]

\* lines 389-392: the four band_averaging calls; the first one that raises
\* ends the call
SCBand ==
    /\ sc.pc = "band"
    /\ UNCHANGED SCOthers
    /\ LET c == BandAveraging(sc.sxy_conj, sc.fj, sc.stencil)
           s == BandAveraging(sc.sxy, sc.fj, sc.stencil)
           xx == BandAveraging(sc.sxx, sc.fj, sc.stencil)
           yy == BandAveraging(sc.syy, sc.fj, sc.stencil)
       IN  IF Unbound \in {c, s, xx, yy}
           THEN sc' = [sc EXCEPT !.pc = "raised"]
           ELSE sc' = [sc EXCEPT !.fj_ba = c[1][1], !.sxy_conj_ba = c[1][2],
                                 !.sxy_ba = s[1][2], !.sxx_ba = xx[1][2],
                                 !.syy_ba = yy[1][2], !.pc = "phase"]

\* line 397: pxy_ba = np.arctan2(sxy_ba.imag, sxy_ba.real), each angle held as
\* the two arguments of arctan2
SCPhase ==
    /\ sc.pc = "phase"
    /\ UNCHANGED SCOthers
    /\ sc' = [sc EXCEPT !.pxy_ba = [k \in DOMAIN sc.sxy_ba |->
                                       [imag |-> sc.sxy_ba[k][2], real |-> sc.sxy_ba[k][1]]],
                        !.pc = "coherence"]

\* line 400: g2 = sxy_conj_ba * sxy_ba / sxx_ba / syy_ba
G2(sxy_conj_ba, sxy_ba, sxx_ba, syy_ba) ==
    [k \in DOMAIN sxy_ba |->
        CDivReal(CDivReal(CMul(sxy_conj_ba[k], sxy_ba[k]), sxx_ba[k][1]), syy_ba[k][1])]

SCCoherence ==
    /\ sc.pc = "coherence"
    /\ UNCHANGED SCOthers
    /\ sc' = [sc EXCEPT !.g2 = G2(sc.sxy_conj_ba, sc.sxy_ba, sc.sxx_ba, sc.syy_ba),
                        !.pc = "critical"]

\* the degrees of freedom 2.0*stencil - 2.0
Dof(stencil) == 2 * stencil - 2

\* lines 403-404: g2crit = 1.0 - alpha**(2.0/(2.0*stencil - 2.0)), held as the
\* exponent. With no degrees of freedom the division of two Python floats
\* raises ZeroDivisionError; numpy's gives infinity.
SCCritical ==
    /\ sc.pc = "critical"
    /\ UNCHANGED SCOthers
    /\ IF Dof(sc.stencil) = 0 /\ sc.stencil_type = "int"
       THEN sc' = [sc EXCEPT !.pc = "raised"]
       ELSE sc' = [sc EXCEPT !.g2crit = [one_minus_alpha_to |->
                                            XDiv(ToRat(2), ToRat(Dof(sc.stencil)))],
                             !.pc = "limits"]

\* lines 410-412: one element of pcl. The quantile of the F distribution is
\* not a number without degrees of freedom in the denominator; (1 - g2)/g2
\* is not a number or infinite where g2 is not a number or zero; the arcsine
\* of either is not a number. Otherwise the element is held as the factors
\* of the argument.
Pcl(stencil, g2k) ==
    IF Dof(stencil) <= 0 \/ g2k[1][3] = 0 \/ g2k[1] = SZero
    THEN [nan |-> TRUE]
    ELSE [nan |-> FALSE, factor |-> Rat(2, Dof(stencil)), g2 |-> g2k[1]]

SCLimits ==
    /\ sc.pc = "limits"
    /\ UNCHANGED SCOthers
    /\ sc' = [sc EXCEPT !.pcl = [k \in DOMAIN sc.g2 |-> Pcl(sc.stencil, sc.g2[k])],
                        !.pc = "lags"]

\* line 415: tl = pxy_ba/(2.0*np.pi*fj_ba), each lag held as the angle and the
\* frequency
SCLags ==
    /\ sc.pc = "lags"
    /\ UNCHANGED SCOthers
    /\ sc' = [sc EXCEPT !.tl = [k \in DOMAIN sc.pxy_ba |->
                                   [angle |-> sc.pxy_ba[k], freq |-> sc.fj_ba[k]]],
                        !.pc = "return"]

\* line 418: the ten values returned
SCReturn ==
    /\ sc.pc = "return"
    /\ UNCHANGED SCOthers
    /\ sc' = [sc EXCEPT !.result = Bound(<<sc.fj_ba, RealPart(sc.g2), sc.g2crit,
                                           sc.sxy_conj_ba, sc.sxy_ba, sc.sxx_ba,
                                           sc.syy_ba, sc.pxy_ba, sc.pcl, sc.tl>>),
                        !.pc = "done"]

SCNext ==
    \/ SCFreq \/ SCFft \/ SCSpectra \/ SCPositive \/ SCBand \/ SCPhase
    \/ SCCoherence \/ SCCritical \/ SCLimits \/ SCLags \/ SCReturn

SpecSC == SCInit /\ [][SCNext]_vars

(* Claims about squared_coherence.                                         *)

SOne == <<1, 0, 1>>

\* the call has computed g2
HasG2 == sc.pc \in {"critical", "limits", "lags", "return", "done"}

\* C24: for any stencil > 1, in each band where the band-averaged auto-spectra
\* are nonzero, g2 is real, at least 0 and at most 1, and sxy_conj_ba and
\* sxy_ba are complex conjugates of each other.
C24_Coherence ==
    (HasG2 /\ sc.stencil > 1) =>
        \A k \in DOMAIN sc.g2 :
            (sc.sxx_ba[k][1] # SZero /\ sc.syy_ba[k][1] # SZero) =>
                /\ sc.g2[k][2] = SZero
                /\ SLeq(SZero, sc.g2[k][1])
                /\ SLeq(sc.g2[k][1], SOne)
                /\ sc.sxy_conj_ba[k] = Conjugate(sc.sxy_ba[k])
                /\ sc.pc = "done" => sc.result[1][2][k] = sc.g2[k][1]

\* a call with stencil > 1 has returned a band whose cross-spectrum is not
\* real and whose coherence is strictly between 0 and 1
C24_Witness ==
    /\ sc.pc = "done"
    /\ sc.stencil > 1
    /\ \E k \in DOMAIN sc.g2 :
          /\ sc.sxx_ba[k][1] # SZero
          /\ sc.syy_ba[k][1] # SZero
          /\ sc.sxy_ba[k][2] # SZero
          /\ sc.g2[k][1] \notin {SZero, SOne}

\* the number of non-negative-frequency bins of a record of N samples
NonNegativeBins(N, dt) == Cardinality(FreqInd(FftFreq(N, dt)))

\* C25: a call with stencil <= 1 fails or returns confidence quantities that
\* are not finite; a call with stencil > 1 on series of any length N >= 2
\* returns all ten outputs, each spectral output with 1 + ceil((M-1)/stencil)
\* bands, M the number of non-negative-frequency bins.
C25_StencilRequired ==
    sc.pc \in {"done", "raised"} =>
        LET N == Size(sc.x)
            bands == 1 + Ceil(NonNegativeBins(N, sc.dt) - 1, sc.stencil)
        IN  /\ sc.stencil <= 1 =>
                \/ sc.pc = "raised"
                \/ \A k \in DOMAIN sc.result[1][9] : sc.result[1][9][k].nan
            /\ (sc.stencil > 1 /\ N >= 2) =>
                /\ sc.pc = "done"
                /\ Len(sc.result[1]) = 10
                /\ \A o \in {1, 2, 4, 5, 6, 7, 8, 9, 10} : Size(sc.result[1][o]) = bands

\* C27: the frequency bins squared_coherence keeps before band averaging are
\* the frequency axis psdraw returns for the same N and dt, for odd N and for
\* even N, where psdraw's axis includes the Nyquist bin at index N/2.
C27_SameAxis ==
    sc.pc \in {"band", "phase", "coherence", "critical", "limits", "lags", "return",
               "done", "raised"} =>
        sc.fj = OneSidedFreq(FftFreq(Size(sc.x), sc.dt), Size(sc.x))

\* the number of input bins that output band k averages
BinsOfBand(k) ==
    LET M == Size(sc.fj)
        Nout == Size(sc.fj_ba)
    IN  IF k = 0 THEN 1
        ELSE IF k < Nout - 1 THEN sc.stencil
        ELSE M - 1 - (Nout - 2) * sc.stencil

\* C28: for two series with nonzero mean and any stencil the first output band
\* has g2 = 1, and so has every band that averages a single input bin.
C28_NoAveraging ==
    (sc.pc = "done" /\ RMean(sc.x) # ToRat(0) /\ RMean(sc.y) # ToRat(0)) =>
        \A k \in DOMAIN sc.g2 :
            BinsOfBand(k) = 1 => sc.result[1][2][k] = SOne

\* with nonzero means the first band of every returned g2 is 1
FirstBandIsOne ==
    (sc.pc = "done" /\ RMean(sc.x) # ToRat(0) /\ RMean(sc.y) # ToRat(0)) =>
        sc.result[1][2][0] = SOne

-----------------------------------------------------------------------------
(* psd_pw_pc (src/data/signal.py, lines 252-311): the spectrum of the first *)
(* difference of a series, band averaged on request and post-coloured.     *)

\* the series handed in: every short series of small samples, and for the
\* longer records spikes and a ramp
PwLens == {2, 3, 4, 5, 7}
PwSeries(N) ==
    IF N < 5 THEN Series(N)
    ELSE {Spike(N, p, c) : p \in {1, 2, 3, 6} \cap 1..(N - 1), c \in {-1, 1}}
         \cup {[i \in 0..(N - 1) |-> ToRat(i)]}

\* line 295: xt = yt[1::] - yt[0:-1]
FirstDifference(yt) ==
    LET a == Slice(yt, 1, Size(yt))
        b == Slice(yt, 0, -1)
    IN  [i \in DOMAIN a |-> RSub(a[i], b[i])]

\* line 298: xt -= xt.mean()
MeanRemoved(xt) == [i \in DOMAIN xt |-> RSub(xt[i], RMean(xt))]

\* an array of reals as band_averaging takes it, and back
AsComplex(a) == [k \in DOMAIN a |-> <<a[k], SZero>>]

\* 4.0*np.sin(np.pi*r)**2 for a fraction r whose denominator divides 12,
\* which is 2 - 2*cos(2*pi*r)
FourSinSq(r) ==
    LET t == (r[1] * (12 \div r[2])) % 12
    IN  SAdd(<<2, 0, 1>>, SNeg(SMul(<<2, 0, 1>>, Cos12(t))))

\* line 308: 4.0 * np.sin(np.pi*freq*dt)**2
Divisor(freq, dt) == [k \in DOMAIN freq |-> FourSinSq(RMul(freq[k], ToRat(dt)))]

\* a real over a real: numpy warns and gives not-a-number or infinity for a
\* zero divisor
SDiv(x, r) == IF r = SZero THEN SOverZero(x) ELSE SMul(x, SInv(r))

PWFrame(yt, dt, stencil) ==
    [pc |-> "difference", yt |-> yt, dt |-> dt, stencil |-> stencil,
     xt |-> Unbound, freq |-> Unbound, Sx |-> Unbound, Sf |-> Unbound,
     result |-> Unbound]

PWOthers == <<ba, heap, orig, pr, cc, bx, sl, sd, sc, ru, af>>

\* stencil 0 stands for the default, stencil=False
PWInit ==
    /\ ba = Idle
    /\ heap = <<>>
    /\ orig = <<>>
    /\ pr = <<>>
    /\ cc = Idle
    /\ bx = Idle
    /\ sl = Idle
    /\ sd = Idle
    /\ sc = Idle
    /\ ru = Idle
    /\ af = Idle
    /\ \E N \in PwLens, dt \in 1..MaxDt, stencil \in 0..MaxStencil :
          \E yt \in PwSeries(N) :
             pw = PWFrame(yt, dt, stencil)

\* line 295: the first difference
PWDifference ==
    /\ pw.pc = "difference"
    /\ UNCHANGED PWOthers
    /\ pw' = [pw EXCEPT !.xt = FirstDifference(pw.yt), !.pc = "demean"]

\* line 298: remove the mean from the derivative
PWDemean ==
    /\ pw.pc = "demean"
    /\ UNCHANGED PWOthers
    /\ pw' = [pw EXCEPT !.xt = MeanRemoved(pw.xt), !.pc = "psd"]

\* line 301: freq, Sx = psdraw(xt, dt)
PWPsd ==
    /\ pw.pc = "psd"
    /\ UNCHANGED PWOthers
    /\ LET r == Psdraw(pw.xt, pw.dt, FALSE)
       IN  pw' = [pw EXCEPT !.freq = r[1], !.Sx = r[2], !.pc = "band"]

\* lines 304-305: band averaging if requested; a band_averaging call that
\* raises ends the call
PWBand ==
    /\ pw.pc = "band"
    /\ UNCHANGED PWOthers
    /\ IF pw.stencil = 0
       THEN pw' = [pw EXCEPT !.pc = "colour"]
       ELSE LET r == BandAveraging(AsComplex(pw.Sx), pw.freq, pw.stencil)
            IN  IF r = Unbound
                THEN pw' = [pw EXCEPT !.pc = "raised"]
                ELSE pw' = [pw EXCEPT !.freq = r[1][1], !.Sx = RealPart(r[1][2]),
                                      !.pc = "colour"]

\* line 308: Sf = Sx/(4.0 * np.sin(np.pi*freq*dt)**2)
PWColour ==
    /\ pw.pc = "colour"
    /\ UNCHANGED PWOthers
    /\ LET d == Divisor(pw.freq, pw.dt)
       IN  pw' = [pw EXCEPT !.Sf = [k \in DOMAIN pw.Sx |-> SDiv(pw.Sx[k], d[k])],
                            !.pc = "return"]

\* line 311: return freq, Sf
PWReturn ==
    /\ pw.pc = "return"
    /\ UNCHANGED PWOthers
    /\ pw' = [pw EXCEPT !.result = Bound(<<pw.freq, pw.Sf>>), !.pc = "done"]

PWNext == PWDifference \/ PWDemean \/ PWPsd \/ PWBand \/ PWColour \/ PWReturn

SpecPW == PWInit /\ [][PWNext]_vars

(* Claims about psd_pw_pc.                                                 *)

\* the zero divisor is at the first bin only, the first bin of the result is
\* not a number and every other bin is a number
ColouredAsClaimed ==
    LET freq == pw.result[1][1]
        Sf   == pw.result[1][2]
        d    == Divisor(freq, pw.dt)
    IN  /\ \A k \in DOMAIN freq : (d[k] = SZero) <=> (k = 0)
        /\ Sf[0] = SNaN
        /\ \A k \in DOMAIN Sf : k # 0 => Sf[k][3] # 0

\* C26: for every series of length N >= 3, any dt > 0 and with or without a
\* stencil the call returns normally, the divisor 4*sin(pi*f*dt)^2 is zero at
\* the first output bin and at no other, and the first bin is returned as
\* not-a-number while every other bin is defined.
C26_ZeroDivisor ==
    (pw.pc \in {"done", "raised"} /\ Size(pw.yt) >= 3) =>
        /\ pw.pc = "done"
        /\ ColouredAsClaimed

\* every call that returns has the zero divisor and the undefined value at the
\* first bin only
ReturnedColoured == pw.pc = "done" => ColouredAsClaimed

-----------------------------------------------------------------------------
(* aliased_frequency (src/data/signal.py, lines 559-607): the frequency a   *)
(* signal above the Nyquist frequency is aliased to.                       *)

\* the sampling periods and signal periods are the fractions p/q, p and q
\* up to MaxAlias
MaxAlias == 4
Periods == {Rat(p, q) : p \in 1..MaxAlias, q \in 1..MaxAlias}

\* the arguments are Python floats or numpy floats
FloatTypes == {"float", "numpy.float64"}

\* line 601: the guard on the number of passes
MaxPasses == 100000000

AFFrame(dt_sampling, signal_period, float_type) ==
    [pc |-> "nyquist", dt_sampling |-> dt_sampling, signal_period |-> signal_period,
     float_type |-> float_type, fN |-> Unbound, fk |-> Unbound, k |-> Unbound,
     aliased_frequency |-> Unbound, returned |-> "no", result |-> Unbound]

AFOthers == <<ba, heap, orig, pr, cc, bx, sl, sd, sc, pw, ru>>

AFInit ==
    /\ ba = Idle
    /\ heap = <<>>
    /\ orig = <<>>
    /\ pr = <<>>
    /\ cc = Idle
    /\ bx = Idle
    /\ sl = Idle
    /\ sd = Idle
    /\ sc = Idle
    /\ pw = Idle
    /\ ru = Idle
    /\ \E dt_sampling \in Periods, signal_period \in Periods, float_type \in FloatTypes :
          af = AFFrame(dt_sampling, signal_period, float_type)

\* lines 577-580: fN = 1.0/(2.0*dt_sampling), fk = 1.0/signal_period
AFNyquist ==
    /\ af.pc = "nyquist"
    /\ UNCHANGED AFOthers
    /\ af' = [af EXCEPT !.fN = Bound(Rat(af.dt_sampling[2], 2 * af.dt_sampling[1])),
                        !.fk = Bound(Rat(af.signal_period[2], af.signal_period[1])),
                        !.pc = "resolved"]

\* lines 588-590: a resolved signal returns with no value
AFResolved ==
    /\ af.pc = "resolved"
    /\ ~RGreater(af.fk[1], af.fN[1])
    /\ UNCHANGED AFOthers
    /\ af' = [af EXCEPT !.returned = "none", !.pc = "done"]

\* line 593: k = -1
AFStart ==
    /\ af.pc = "resolved"
    /\ RGreater(af.fk[1], af.fN[1])
    /\ UNCHANGED AFOthers
    /\ af' = [af EXCEPT !.k = Bound(-1), !.pc = "loop"]

\* lines 595-604: one pass of the loop. The print of the aliased period at
\* line 599 divides by the aliased frequency: a zero raises ZeroDivisionError
\* for a Python float and prints inf for a numpy float.
AFPass ==
    /\ af.pc = "loop"
    /\ UNCHANGED AFOthers
    /\ LET k == af.k[1] + 1
           aliased_frequency == RSub(af.fk[1], RMul(ToRat(2 * k), af.fN[1]))
       IN  IF RLess(aliased_frequency, af.fN[1])
           THEN IF aliased_frequency = ToRat(0) /\ af.float_type = "float"
                THEN af' = [af EXCEPT !.k = Bound(k),
                                      !.aliased_frequency = Bound(aliased_frequency),
                                      !.pc = "raised"]
                ELSE af' = [af EXCEPT !.k = Bound(k),
                                      !.aliased_frequency = Bound(aliased_frequency),
                                      !.pc = "return"]
           ELSE IF k > MaxPasses
           THEN af' = [af EXCEPT !.k = Bound(k), !.aliased_frequency = Bound(NaN),
                                 !.pc = "return"]
           ELSE af' = [af EXCEPT !.k = Bound(k),
                                 !.aliased_frequency = Bound(aliased_frequency)]

\* line 607: return aliased_frequency
AFReturn ==
    /\ af.pc = "return"
    /\ UNCHANGED AFOthers
    /\ af' = [af EXCEPT !.result = af.aliased_frequency, !.returned = "value",
                        !.pc = "done"]

AFNext == AFNyquist \/ AFResolved \/ AFStart \/ AFPass \/ AFReturn

SpecAF == AFInit /\ [][AFNext]_vars

(* Claims about aliased_frequency.                                         *)

\* C30: with fk <= fN the function returns no value without entering the
\* loop; otherwise the loop stops after finitely many passes, k >= 1 and far
\* below the guard, and the returned a = fk - 2*k*fN satisfies
\* -fN <= a < fN and 0 <= a.
C30_InBand ==
    af.pc \in {"done", "raised"} =>
        LET fN == af.fN[1]
            fk == af.fk[1]
        IN  IF ~RGreater(fk, fN)
            THEN af.returned = "none" /\ af.k = Unbound
            ELSE /\ af.returned = "value"
                 /\ af.k[1] >= 1
                 /\ af.k[1] < MaxPasses
                 /\ LET a == af.result[1]
                    IN  /\ a = RSub(fk, RMul(ToRat(2 * af.k[1]), fN))
                        /\ ~RLess(a, RSub(ToRat(0), fN))
                        /\ RLess(a, fN)
                        /\ ~RLess(a, ToRat(0))

\* every value returned is fk - 2*k*fN with k >= 1, at least -fN and below fN
ReturnedInBand ==
    (af.pc = "done" /\ af.returned = "value") =>
        LET a == af.result[1]
        IN  /\ af.k[1] >= 1
            /\ a = RSub(af.fk[1], RMul(ToRat(2 * af.k[1]), af.fN[1]))
            /\ ~RLess(a, RSub(ToRat(0), af.fN[1]))
            /\ RLess(a, af.fN[1])

-----------------------------------------------------------------------------
(* runup (src/models/nhwave/post/nhwave_post.py, lines 690-732): the water  *)
(* surface elevation and the position of the runup contour at every time   *)
(* step of a one-dimensional simulation.                                   *)

\* the number of time steps and of cells
MaxTimes == 2
MaxCells == 3

\* the surface elevations, the bathymetries and the coordinates handed in
Elevations(T, X) == [0..(T - 1) -> [0..(X - 1) -> 0..1]]
Bathymetries(X) == [0..(X - 1) -> -1..0]
Coordinates(X) == {[i \in 0..(X - 1) |-> i * dx + 1] : dx \in 1..2}

\* np.argmin of an array of booleans: the index of the first False, 0 when
\* there is none
ArgMin(b) ==
    IF \A i \in DOMAIN b : b[i] THEN 0
    ELSE CHOOSE i \in DOMAIN b : ~b[i] /\ \A j \in DOMAIN b : j < i => b[j]

\* a[i] as Python reads an index: a negative one counts from the end
At(a, i) == IF i < 0 THEN a[i + Size(a)] ELSE a[i]

\* line 720: wdepth = eta[aa,:] + h
WDepth(eta, h, aa) == [i \in DOMAIN h |-> eta[aa][i] + h[i]]

\* line 723: wdepth_ind = np.argmin(wdepth > r_depth) - 1
WDepthInd(wdepth, r_depth) == ArgMin([i \in DOMAIN wdepth |-> wdepth[i] > r_depth]) - 1

RUFrame(eta, h, x, r_depth) ==
    [pc |-> "alloc", eta |-> eta, h |-> h, x |-> x, r_depth |-> r_depth,
     runup |-> Unbound, x_runup |-> Unbound, aa |-> 0, wdepth_ind |-> Unbound,
     result |-> Unbound]

RUOthers == <<ba, heap, orig, pr, cc, bx, sl, sd, sc, pw, af>>

RUInit ==
    /\ ba = Idle
    /\ heap = <<>>
    /\ orig = <<>>
    /\ pr = <<>>
    /\ cc = Idle
    /\ bx = Idle
    /\ sl = Idle
    /\ sd = Idle
    /\ sc = Idle
    /\ pw = Idle
    /\ af = Idle
    /\ \E T \in 1..MaxTimes, X \in 1..MaxCells, r_depth \in 0..1 :
          \E eta \in Elevations(T, X), h \in Bathymetries(X), x \in Coordinates(X) :
             ru = RUFrame(eta, h, x, r_depth)

\* lines 713-714: runup and x_runup
RUAlloc ==
    /\ ru.pc = "alloc"
    /\ UNCHANGED RUOthers
    /\ ru' = [ru EXCEPT !.runup = [t \in DOMAIN ru.eta |-> 0],
                        !.x_runup = [t \in DOMAIN ru.eta |-> 0],
                        !.pc = "loop"]

\* lines 717-729: one pass of the loop over time
RUPass ==
    /\ ru.pc = "loop"
    /\ ru.aa < Size(ru.runup)
    /\ UNCHANGED RUOthers
    /\ LET wdepth == WDepth(ru.eta, ru.h, ru.aa)
           wdepth_ind == WDepthInd(wdepth, ru.r_depth)
       IN  ru' = [ru EXCEPT !.wdepth_ind = Bound(wdepth_ind),
                            !.runup[ru.aa] = At(ru.eta[ru.aa], wdepth_ind),
                            !.x_runup[ru.aa] = At(ru.x, wdepth_ind),
                            !.aa = ru.aa + 1]

\* line 732: return runup, x_runup
RUReturn ==
    /\ ru.pc = "loop"
    /\ ru.aa = Size(ru.runup)
    /\ UNCHANGED RUOthers
    /\ ru' = [ru EXCEPT !.result = Bound(<<ru.runup, ru.x_runup>>), !.pc = "done"]

RUNext == RUAlloc \/ RUPass \/ RUReturn

SpecRU == RUInit /\ [][RUNext]_vars

(* Claims about runup.                                                     *)

\* the cells of time step t that are not wet
DryCells(t) == {i \in DOMAIN ru.h : ~(ru.eta[t][i] + ru.h[i] > ru.r_depth)}

\* the cell the index selected in the pass just made stands for
SelectedCell ==
    IF ru.wdepth_ind[1] < 0 THEN ru.wdepth_ind[1] + Size(ru.h) ELSE ru.wdepth_ind[1]

\* C29: at every time step the selected cell is the last one of the leading
\* run of wet cells, j-1 for j the first dry cell and the last cell when all
\* are wet; it is never at or beyond the first dry cell, also when cell 0 is
\* dry; and runup and x_runup are taken at that cell.
C29_Contour ==
    (ru.pc \in {"loop", "done"} /\ ru.aa > 0) =>
        LET t == ru.aa - 1
            dry == DryCells(t)
        IN  /\ dry = {} => SelectedCell = Size(ru.h) - 1
            /\ dry # {} => \A j \in dry : SelectedCell < j
            /\ (dry # {} /\ 0 \notin dry) =>
                   SelectedCell = (CHOOSE j \in dry : \A i \in dry : j <= i) - 1
            /\ ru.runup[t] = ru.eta[t][SelectedCell]
            /\ ru.x_runup[t] = ru.x[SelectedCell]

\* with cell 0 wet the selected cell is the last of the leading wet cells
WetStartContour ==
    (ru.pc \in {"loop", "done"} /\ ru.aa > 0 /\ 0 \notin DryCells(ru.aa - 1)) =>
        C29_Contour

=============================================================================
